---- MODULE Spec2Model ----
(***************************************************************************)
(* A model of impractical.co/clif: the per-level token disambiguator       *)
(* (parse), the routing driver (Route), the flag namespace builder         *)
(* (listFlagDefs) and the built-in flag parsers of package flagtypes.      *)
(*                                                                         *)
(* Go strings are modelled as sequences of one-character strings, so that  *)
(* strings.HasPrefix, strings.TrimPrefix, strings.Cut and strings.ToLower  *)
(* are computed character by character.  A Go pointer or interface value   *)
(* that may be nil is modelled as a sequence of length 0 (nil) or 1.       *)
(***************************************************************************)
EXTENDS Integers, Sequences, FiniteSets, TLC

(***************************************************************************)
(* Bounds of the model.                                                    *)
(***************************************************************************)
\* the longest input (number of tokens) handed to Route
MaxLen == 4

(***************************************************************************)
(* package strings                                                         *)
(***************************************************************************)
UpperChars == <<"A", "B", "C", "D", "E", "F", "G", "H", "I", "J", "K", "L", "M",
                "N", "O", "P", "Q", "R", "S", "T", "U", "V", "W", "X", "Y", "Z">>

LowerChars == <<"a", "b", "c", "d", "e", "f", "g", "h", "i", "j", "k", "l", "m",
                "n", "o", "p", "q", "r", "s", "t", "u", "v", "w", "x", "y", "z">>

\* unicode.ToLower on one (ASCII) character
ToLowerChar(c) ==
    IF \E i \in 1..Len(UpperChars) : UpperChars[i] = c
    THEN LowerChars[CHOOSE i \in 1..Len(UpperChars) : UpperChars[i] = c]
    ELSE c

\* strings.ToLower
ToLower(s) == [i \in 1..Len(s) |-> ToLowerChar(s[i])]

\* strings.HasPrefix
HasPrefix(s, prefix) ==
    /\ Len(s) >= Len(prefix)
    /\ SubSeq(s, 1, Len(prefix)) = prefix

\* strings.TrimPrefix
TrimPrefix(s, prefix) ==
    IF HasPrefix(s, prefix) THEN SubSeq(s, Len(prefix) + 1, Len(s)) ELSE s

\* strings.Cut with a one-character separator: <<before, after, found>>
Cut(s, sep) ==
    IF \E i \in 1..Len(s) : s[i] = sep
    THEN LET i == CHOOSE j \in 1..Len(s) :
                     /\ s[j] = sep
                     /\ \A k \in 1..(j - 1) : s[k] # sep
         IN  <<SubSeq(s, 1, i - 1), SubSeq(s, i + 1, Len(s)), TRUE>>
    ELSE <<s, <<>>, FALSE>>

RECURSIVE Join(_, _)
\* strings.Join
Join(elems, sep) ==
    IF Len(elems) = 0 THEN <<>>
    ELSE IF Len(elems) = 1 THEN elems[1]
    ELSE elems[1] \o sep \o Join(Tail(elems), sep)

\* the two-character flag marker
DashDash == <<"-", "-">>

(***************************************************************************)
(* Runtime flag values (flagtypes.BasicFlag, flagtypes.ListFlag) and the   *)
(* errors of the converters.  The generic Value field is wrapped in a      *)
(* record named after its Go type.                                         *)
(***************************************************************************)
BasicFlagBool(name, raw, val) ==
    [Type |-> "BasicFlag[bool]", Name |-> name, RawValue |-> raw, Value |-> [bool |-> val]]

BasicFlagString(name, raw, val) ==
    [Type |-> "BasicFlag[string]", Name |-> name, RawValue |-> raw, Value |-> [string |-> val]]

BasicFlagInt(name, raw, val) ==
    [Type |-> "BasicFlag[int64]", Name |-> name, RawValue |-> raw, Value |-> [int64 |-> val]]

ListFlagString(name, raw, val) ==
    [Type |-> "ListFlag[string]", Name |-> name, RawValue |-> raw, Value |-> [strings |-> val]]

\* Flag.GetName
GetName(flag) == flag.Name

\* Flag.GetRawValue
GetRawValue(flag) == flag.RawValue

\* *strconv.NumError{Func, Num, Err}
NumError(func, num, e) ==
    [Type |-> "strconv.NumError", Func |-> func, Num |-> num, Err |-> e]

UnexpectedFlagPriorTypeError(name, expected, got) ==
    [Type |-> "UnexpectedFlagPriorTypeError", Name |-> name, Expected |-> expected, Got |-> got]

\* a (Flag, error) pair returned by FlagParser.Parse
Parsed(flag) == [flag |-> <<flag>>, err |-> <<>>]

Failed(e) == [flag |-> <<>>, err |-> <<e>>]

(***************************************************************************)
(* package strconv                                                         *)
(***************************************************************************)
ParseBoolTrue == {<<"1">>, <<"t">>, <<"T">>, <<"T", "R", "U", "E">>,
                  <<"t", "r", "u", "e">>, <<"T", "r", "u", "e">>}

ParseBoolFalse == {<<"0">>, <<"f">>, <<"F">>, <<"F", "A", "L", "S", "E">>,
                   <<"f", "a", "l", "s", "e">>, <<"F", "a", "l", "s", "e">>}

DigitChars == <<"0", "1", "2", "3", "4", "5", "6", "7", "8", "9">>

IsDigit(c) == \E i \in 1..Len(DigitChars) : DigitChars[i] = c

DigitVal(c) == (CHOOSE i \in 1..Len(DigitChars) : DigitChars[i] = c) - 1

RECURSIVE DecimalVal(_)
DecimalVal(s) ==
    IF Len(s) = 0 THEN 0
    ELSE 10 * DecimalVal(SubSeq(s, 1, Len(s) - 1)) + DigitVal(s[Len(s)])

\* strconv.ParseInt(s, 10, 64): [val, err].  The tokens of the model hold at
\* most three digits, so the out-of-range error of ParseInt cannot arise.
ParseInt(s) ==
    LET neg    == Len(s) > 0 /\ s[1] = "-"
        signed == Len(s) > 0 /\ s[1] \in {"+", "-"}
        digits == IF signed THEN Tail(s) ELSE s
    IN  IF Len(s) = 0 \/ Len(digits) = 0 \/ \E i \in 1..Len(digits) : ~IsDigit(digits[i])
        THEN [val |-> 0, err |-> <<NumError("ParseInt", s, "invalid syntax")>>]
        ELSE [val |-> IF neg THEN -DecimalVal(digits) ELSE DecimalVal(digits), err |-> <<>>]

(***************************************************************************)
(* package flagtypes: the built-in FlagParser implementations              *)
(***************************************************************************)
\* BoolParser.Parse with a slip: an empty value is false
BoolParserParse_emptyIsFalse(name, value, prior) ==
    IF value # <<>>
    THEN IF value \in ParseBoolTrue THEN Parsed(BasicFlagBool(name, value, TRUE))
         ELSE IF value \in ParseBoolFalse THEN Parsed(BasicFlagBool(name, value, FALSE))
         ELSE Failed(NumError("ParseBool", value, "invalid syntax"))
    ELSE Parsed(BasicFlagBool(name, value, FALSE))

\* BoolParser.Parse
BoolParserParse(name, value, prior) ==
    IF value # <<>>
    THEN IF value \in ParseBoolTrue THEN Parsed(BasicFlagBool(name, value, TRUE))
         ELSE IF value \in ParseBoolFalse THEN Parsed(BasicFlagBool(name, value, FALSE))
         ELSE Failed(NumError("ParseBool", value, "invalid syntax"))
    ELSE Parsed(BasicFlagBool(name, value, TRUE))

\* StringParser.Parse
StringParserParse(name, value, prior) ==
    Parsed(BasicFlagString(name, value, value))

\* IntParser.Parse
IntParserParse(name, value, prior) ==
    LET parsed == ParseInt(value)
    IN  IF parsed.err # <<>> THEN Failed(parsed.err[1])
        ELSE Parsed(BasicFlagInt(name, value, parsed.val))

\* StringListParser.Parse
StringListParserParse(name, value, prior) ==
    IF prior # <<>> /\ prior[1].Type # "ListFlag[string]"
    THEN Failed(UnexpectedFlagPriorTypeError(name, "ListFlag[string]", prior[1].Type))
    ELSE LET list       == IF prior # <<>> THEN prior[1].Value.strings ELSE <<>>
             basicVal   == StringParserParse(name, value, <<>>)
             stringFlag == basicVal.flag[1]
         IN  Parsed(ListFlagString(name,
                                   Join(Append(list, stringFlag.Value.string), <<",", " ">>),
                                   Append(list, stringFlag.Value.string)))

\* dynamic dispatch of FlagDef.Parser.Parse
Parse(parser, name, value, prior) ==
    CASE parser = "BoolParser"       -> BoolParserParse(name, value, prior)
      [] parser = "StringParser"     -> StringParserParse(name, value, prior)
      [] parser = "IntParser"        -> IntParserParse(name, value, prior)
      [] parser = "StringListParser" -> StringListParserParse(name, value, prior)


(***************************************************************************)
(* The command tree: FlagDef, Command, Application and the parseable       *)
(* interface.                                                              *)
(***************************************************************************)
FlagDef(name, aliases, valueAccepted, onlyAfterCommandName, parser) ==
    [Name |-> name, Aliases |-> aliases, ValueAccepted |-> valueAccepted,
     OnlyAfterCommandName |-> onlyAfterCommandName, Parser |-> parser]

Command(name, aliases, flagDefs, subs, accepted, allowNonFlagFlags) ==
    [Kind |-> "Command", Name |-> name, Aliases |-> aliases, Flags |-> flagDefs,
     Subcommands |-> subs, ArgsAccepted |-> accepted,
     AllowNonFlagFlags |-> allowNonFlagFlags,
     Description |-> <<>>, Hidden |-> FALSE, Handler |-> <<>>]

Application(commands, flagDefs) ==
    [Kind |-> "Application", Commands |-> commands, Flags |-> flagDefs]

\* Application.argsAccepted, Command.argsAccepted
argsAccepted(root) ==
    IF root.Kind = "Application" THEN FALSE ELSE root.ArgsAccepted

\* Application.subcommands, Command.subcommands
subcommands(root) ==
    IF root.Kind = "Application" THEN root.Commands ELSE root.Subcommands

\* Application.flags, Command.flags
flags(root) == root.Flags

(***************************************************************************)
(* Errors of package clif                                                  *)
(***************************************************************************)
UnknownFlagNameError(name) == [Type |-> "UnknownFlagNameError", Name |-> name]

DuplicateFlagNameError(name) == [Type |-> "DuplicateFlagNameError", Name |-> name]

UnexpectedFlagValueError(flag, value) ==
    [Type |-> "UnexpectedFlagValueError", Flag |-> flag, Value |-> value]

\* MissingFlagValueError: the name of the flag, without the leading "--"
MissingFlagValueError(name) == [Type |-> "MissingFlagValueError", Name |-> name]

UnexpectedCommandArgError(arg) == [Type |-> "UnexpectedCommandArgError", Arg |-> arg]

ExtraInputError(root, commandPath, flagMap, argList, extraInput) ==
    [Type |-> "ExtraInputError", Application |-> root, CommandPath |-> commandPath,
     Flags |-> flagMap, Args |-> argList, ExtraInput |-> extraInput]

(***************************************************************************)
(* Go maps keyed by strings                                                *)
(***************************************************************************)
EmptyMap == [k \in {} |-> <<>>]

\* m[k] = v
MapPut(m, k, v) == [x \in (DOMAIN m) \cup {k} |-> IF x = k THEN v ELSE m[x]]

\* m[k], nil (the empty sequence) when k is not a key
MapGet(m, k) == IF k \in DOMAIN m THEN <<m[k]>> ELSE <<>>

\* maps.Copy(dst, src)
MapsCopy(dst, src) ==
    [x \in (DOMAIN dst) \cup (DOMAIN src) |-> IF x \in DOMAIN src THEN src[x] ELSE dst[x]]

(***************************************************************************)
(* The flag namespace builder                                              *)
(***************************************************************************)
RECURSIVE listFlagDefs(_, _)
RECURSIVE listFlagDefsOfSubs(_)

\* listFlagDefs with a slip: the flags of the subcommands are not collected
listFlagDefs_ownFlagsOnly(command, activeCommand) ==
    SelectSeq(flags(command), LAMBDA flag : ~flag.OnlyAfterCommandName \/ activeCommand)

\* listFlagDefs with a slip: OnlyAfterCommandName is not looked at
listFlagDefs_ignoresRestriction(command, activeCommand) ==
    flags(command) \o listFlagDefsOfSubs(subcommands(command))

\* listFlagDefs: the flags of command that are visible, then those of its
\* subcommands, depth first
listFlagDefs(command, activeCommand) ==
    SelectSeq(flags(command), LAMBDA flag : ~flag.OnlyAfterCommandName \/ activeCommand)
        \o listFlagDefsOfSubs(subcommands(command))

\* listFlagDefsOfSubs with a slip: a subcommand is listed as if it were the
\* active command, so its restricted flags are collected too
listFlagDefsOfSubs_asActive(subs) ==
    IF Len(subs) = 0 THEN <<>>
    ELSE listFlagDefs(Head(subs), TRUE) \o listFlagDefsOfSubs(Tail(subs))

\* the loop of listFlagDefs over command.subcommands()
listFlagDefsOfSubs(subs) ==
    IF Len(subs) = 0 THEN <<>>
    ELSE listFlagDefs(Head(subs), FALSE) \o listFlagDefsOfSubs(Tail(subs))

\* the keys under which parse enters one FlagDef: its name, then its aliases
flagKeys(flag) ==
    <<ToLower(flag.Name)>> \o [i \in 1..Len(flag.Aliases) |-> ToLower(flag.Aliases[i])]

RECURSIVE insertKeys_lastWins(_, _, _)
\* insertKeys with a slip: a key that is already there is overwritten
insertKeys_lastWins(acc, flag, keys) ==
    IF acc.err # <<>> \/ Len(keys) = 0 THEN acc
    ELSE insertKeys_lastWins([acc EXCEPT !.allFlags = MapPut(acc.allFlags, Head(keys), flag)],
                             flag, Tail(keys))

RECURSIVE insertKeys(_, _, _)
\* the insertions of one FlagDef into allFlags, stopping at the first key
\* that is already there
insertKeys(acc, flag, keys) ==
    IF acc.err # <<>> \/ Len(keys) = 0 THEN acc
    ELSE IF Head(keys) \in DOMAIN acc.allFlags
    THEN [acc EXCEPT !.err = <<DuplicateFlagNameError(Head(keys))>>]
    ELSE insertKeys([acc EXCEPT !.allFlags = MapPut(acc.allFlags, Head(keys), flag)],
                    flag, Tail(keys))

RECURSIVE insertFlags(_, _)
\* the loop of parse over flagList
insertFlags(acc, flagList) ==
    IF acc.err # <<>> \/ Len(flagList) = 0 THEN acc
    ELSE insertFlags(insertKeys(acc, Head(flagList), flagKeys(Head(flagList))),
                     Tail(flagList))

\* the flattened namespace of root as the active level: [allFlags, err]
buildAllFlags(root) ==
    insertFlags([allFlags |-> EmptyMap, err |-> <<>>], listFlagDefs(root, TRUE))


(***************************************************************************)
(* The token disambiguator: parse.  A frame holds the arguments and the    *)
(* locals of one invocation of parse; pos is the Go (0-based) index of the *)
(* token the loop is at.  calls records the invocations of                 *)
(* FlagParser.Parse made by the invocation, in order, each with the token  *)
(* position and the call site: "close" (an open flag closed with an empty  *)
(* value), "inline" (a flag token bound at once) or "value" (a separate    *)
(* token bound as the value of the open flag).                             *)
(***************************************************************************)
\* parsedCommand{flags: map[string]Flag{}}
emptyParsedCommand ==
    [subcommand |-> <<>>, flags |-> EmptyMap, args |-> <<>>, unparsed |-> <<>>]

\* parseEnter with a slip: the namespace is built, and its keys checked,
\* before the window is looked at
parseEnter_checksEmptyWindow(root, args, allowNonFlagFlags) ==
    LET built == buildAllFlags(root)
        empty == Len(args) < 1
    IN  [root              |-> root,
         args              |-> args,
         allowNonFlagFlags |-> allowNonFlagFlags,
         allFlags          |-> built.allFlags,
         pos               |-> 0,
         res               |-> emptyParsedCommand,
         openFlagDef       |-> <<>>,
         openFlagArg       |-> <<>>,
         err               |-> built.err,
         returned          |-> empty \/ built.err # <<>>,
         calls             |-> <<>>]

\* the entry of parse, up to the loop over args
parseEnter(root, args, allowNonFlagFlags) ==
    LET built == buildAllFlags(root)
        empty == Len(args) < 1
    IN  [root              |-> root,
         args              |-> args,
         allowNonFlagFlags |-> allowNonFlagFlags,
         allFlags          |-> IF empty THEN EmptyMap ELSE built.allFlags,
         pos               |-> 0,
         res               |-> emptyParsedCommand,
         openFlagDef       |-> <<>>,
         openFlagArg       |-> <<>>,
         err               |-> IF empty THEN <<>> ELSE built.err,
         returned          |-> empty \/ built.err # <<>>,
         calls             |-> <<>>]

\* return res, err
fail(fr, e) == [fr EXCEPT !.err = <<e>>, !.returned = TRUE]

\* bind with a slip: the converter is given the name of the definition
\* instead of the name the flag was invoked with
bind_underDefinitionName(fr, flagDef, name, value, site) ==
    LET canon  == ToLower(flagDef.Name)
        prior  == MapGet(fr.res.flags, canon)
        out    == Parse(flagDef.Parser, canon, value, prior)
        called == [fr EXCEPT !.calls = Append(@, [def   |-> flagDef, name  |-> canon,
                                                   value |-> value,   prior |-> prior,
                                                   pos   |-> fr.pos,  site  |-> site])]
    IN  IF out.err # <<>> THEN fail(called, out.err[1])
        ELSE [called EXCEPT !.res.flags = MapPut(@, GetName(out.flag[1]), out.flag[1])]

\* bind with a slip: an error of the converter is dropped and the scan goes
\* on with nothing bound
bind_ignoresError(fr, flagDef, name, value, site) ==
    LET prior  == MapGet(fr.res.flags, name)
        out    == Parse(flagDef.Parser, name, value, prior)
        called == [fr EXCEPT !.calls = Append(@, [def   |-> flagDef, name  |-> name,
                                                   value |-> value,   prior |-> prior,
                                                   pos   |-> fr.pos,  site  |-> site])]
    IN  IF out.err # <<>> THEN called
        ELSE [called EXCEPT !.res.flags = MapPut(@, GetName(out.flag[1]), out.flag[1])]

\* bind with a slip: the prior value handed to the converter is that of
\* another flag of the level when there is one
bind_priorOfOtherFlag(fr, flagDef, name, value, site) ==
    LET others == DOMAIN fr.res.flags \ {name}
        prior  == IF others # {} THEN <<fr.res.flags[CHOOSE k \in others : TRUE]>>
                  ELSE MapGet(fr.res.flags, name)
        out    == Parse(flagDef.Parser, name, value, prior)
        called == [fr EXCEPT !.calls = Append(@, [def   |-> flagDef, name  |-> name,
                                                   value |-> value,   prior |-> prior,
                                                   pos   |-> fr.pos,  site  |-> site])]
    IN  IF out.err # <<>> THEN fail(called, out.err[1])
        ELSE [called EXCEPT !.res.flags = MapPut(@, GetName(out.flag[1]), out.flag[1])]

\* flag, err := flagDef.Parser.Parse(ctx, name, value, res.flags[name]);
\* if err != nil { return res, err }; res.flags[flag.GetName()] = flag
bind(fr, flagDef, name, value, site) ==
    LET prior  == MapGet(fr.res.flags, name)
        out    == Parse(flagDef.Parser, name, value, prior)
        called == [fr EXCEPT !.calls = Append(@, [def   |-> flagDef, name  |-> name,
                                                   value |-> value,   prior |-> prior,
                                                   pos   |-> fr.pos,  site  |-> site])]
    IN  IF out.err # <<>> THEN fail(called, out.err[1])
        ELSE [called EXCEPT !.res.flags = MapPut(@, GetName(out.flag[1]), out.flag[1])]

\* openFlagDef = nil; openFlagArg = ""
clearOpenFlag(fr) ==
    IF fr.returned THEN fr ELSE [fr EXCEPT !.openFlagDef = <<>>, !.openFlagArg = <<>>]

\* parseFlag with a slip: an inline value is refused only when it is not empty
parseFlag_allowsEmptyInline(fr, flagDef, arg, value, hasValue) ==
    LET closed == IF fr.openFlagDef # <<>>
                  THEN clearOpenFlag(bind(fr, fr.openFlagDef[1], fr.openFlagArg, <<>>, "close"))
                  ELSE fr
    IN  IF closed.returned THEN closed
        ELSE IF ~flagDef.ValueAccepted /\ value # <<>>
        THEN fail(closed, UnexpectedFlagValueError(arg, value))
        ELSE IF ~flagDef.ValueAccepted \/ hasValue
        THEN bind(closed, flagDef, arg, value, "inline")
        ELSE [closed EXCEPT !.openFlagDef = <<flagDef>>, !.openFlagArg = arg]

\* parseFlag with a slip: a flag still awaiting its value is dropped, not
\* closed, when the next flag arrives
parseFlag_dropsOpenFlag(fr, flagDef, arg, value, hasValue) ==
    LET closed == [fr EXCEPT !.openFlagDef = <<>>, !.openFlagArg = <<>>]
    IN  IF ~flagDef.ValueAccepted /\ hasValue
        THEN fail(closed, UnexpectedFlagValueError(arg, value))
        ELSE IF ~flagDef.ValueAccepted \/ hasValue
        THEN bind(closed, flagDef, arg, value, "inline")
        ELSE [closed EXCEPT !.openFlagDef = <<flagDef>>, !.openFlagArg = arg]

\* a token that names a known flag
parseFlag(fr, flagDef, arg, value, hasValue) ==
    LET closed == IF fr.openFlagDef # <<>>
                  THEN clearOpenFlag(bind(fr, fr.openFlagDef[1], fr.openFlagArg, <<>>, "close"))
                  ELSE fr
    IN  IF closed.returned THEN closed
        ELSE IF ~flagDef.ValueAccepted /\ hasValue
        THEN fail(closed, UnexpectedFlagValueError(arg, value))
        ELSE IF ~flagDef.ValueAccepted \/ hasValue
        THEN bind(closed, flagDef, arg, value, "inline")
        ELSE [closed EXCEPT !.openFlagDef = <<flagDef>>, !.openFlagArg = arg]

\* subMatches with a slip: the name of the subcommand is compared as written
subMatches_nameAsWritten(sub, lowerArg) ==
    \/ lowerArg = sub.Name
    \/ \E i \in 1..Len(sub.Aliases) : lowerArg = ToLower(sub.Aliases[i])

\* the test of one subcommand against the lower-cased token
subMatches(sub, lowerArg) ==
    \/ lowerArg = ToLower(sub.Name)
    \/ \E i \in 1..Len(sub.Aliases) : lowerArg = ToLower(sub.Aliases[i])

\* the index of the first subcommand of root that matches, 0 when none does
matchSubcommand(root, lowerArg) ==
    LET subs == subcommands(root)
    IN  IF \E i \in 1..Len(subs) : subMatches(subs[i], lowerArg)
        THEN CHOOSE i \in 1..Len(subs) :
                 /\ subMatches(subs[i], lowerArg)
                 /\ \A j \in 1..(i - 1) : ~subMatches(subs[j], lowerArg)
        ELSE 0

\* parseSubcommand with a slip: the tail handed to the subcommand starts at
\* the matched token instead of after it
parseSubcommand_keepsToken(fr, sub) ==
    LET closed == IF fr.openFlagDef # <<>>
                  THEN bind(fr, fr.openFlagDef[1], fr.openFlagArg, <<>>, "close")
                  ELSE fr
    IN  IF closed.returned THEN closed
        ELSE [closed EXCEPT !.res.subcommand = <<sub>>,
                            !.res.unparsed = IF Len(fr.args) > fr.pos + 1
                                             THEN SubSeq(fr.args, fr.pos + 1, Len(fr.args))
                                             ELSE <<>>,
                            !.returned = TRUE]

\* a token that matched the subcommand sub
parseSubcommand(fr, sub) ==
    LET closed == IF fr.openFlagDef # <<>>
                  THEN bind(fr, fr.openFlagDef[1], fr.openFlagArg, <<>>, "close")
                  ELSE fr
    IN  IF closed.returned THEN closed
        ELSE [closed EXCEPT !.res.subcommand = <<sub>>,
                            !.res.unparsed = IF Len(fr.args) > fr.pos + 1
                                             THEN SubSeq(fr.args, fr.pos + 2, Len(fr.args))
                                             ELSE <<>>,
                            !.returned = TRUE]

\* parseValueOrArg with a slip: the separate token is lower-cased before it
\* is bound as the value of the open flag
parseValueOrArg_lowersValue(fr, arg) ==
    IF ~argsAccepted(fr.root) /\ fr.openFlagDef = <<>>
    THEN fail(fr, UnexpectedCommandArgError(arg))
    ELSE IF ~argsAccepted(fr.root)
    THEN clearOpenFlag(bind(fr, fr.openFlagDef[1], fr.openFlagArg, ToLower(arg), "value"))
    ELSE IF fr.openFlagDef = <<>>
    THEN [fr EXCEPT !.res.args = Append(@, arg)]
    ELSE IF fr.pos = Len(fr.args) - 1
    THEN [fr EXCEPT !.res.args = Append(@, arg)]
    ELSE clearOpenFlag(bind(fr, fr.openFlagDef[1], fr.openFlagArg, ToLower(arg), "value"))

\* parseValueOrArg with a slip: where no argument is accepted the scan
\* stops and hands the token and what follows back as unparsed input
parseValueOrArg_leavesExtraInput(fr, arg) ==
    IF ~argsAccepted(fr.root) /\ fr.openFlagDef = <<>>
    THEN [fr EXCEPT !.res.unparsed = SubSeq(fr.args, fr.pos + 1, Len(fr.args)),
                    !.returned = TRUE]
    ELSE IF ~argsAccepted(fr.root)
    THEN clearOpenFlag(bind(fr, fr.openFlagDef[1], fr.openFlagArg, arg, "value"))
    ELSE IF fr.openFlagDef = <<>>
    THEN [fr EXCEPT !.res.args = Append(@, arg)]
    ELSE IF fr.pos = Len(fr.args) - 1
    THEN [fr EXCEPT !.res.args = Append(@, arg)]
    ELSE clearOpenFlag(bind(fr, fr.openFlagDef[1], fr.openFlagArg, arg, "value"))

\* a token that is neither a known flag nor a subcommand: the value of the
\* open flag or an argument of the command
parseValueOrArg(fr, arg) ==
    IF ~argsAccepted(fr.root) /\ fr.openFlagDef = <<>>
    THEN fail(fr, UnexpectedCommandArgError(arg))
    ELSE IF ~argsAccepted(fr.root)
    THEN clearOpenFlag(bind(fr, fr.openFlagDef[1], fr.openFlagArg, arg, "value"))
    ELSE IF fr.openFlagDef = <<>>
    THEN [fr EXCEPT !.res.args = Append(@, arg)]
    ELSE IF fr.pos = Len(fr.args) - 1
    THEN [fr EXCEPT !.res.args = Append(@, arg)]
    ELSE clearOpenFlag(bind(fr, fr.openFlagDef[1], fr.openFlagArg, arg, "value"))

\* what the token at pos is called once the flag syntax has been looked at:
\* arg is reassigned to the lower-cased flag name when the token starts
\* with the flag marker
argAfterFlagSyntax(token) ==
    IF HasPrefix(token, DashDash)
    THEN ToLower(Cut(TrimPrefix(token, DashDash), "=")[1])
    ELSE token

\* rejectsUnknownFlag with a slip: while a flag is awaiting its value the
\* unknown token is let through (to become that value)
rejectsUnknownFlag_onlyWhenScanning(fr, isFlag, ok) ==
    isFlag /\ ~ok /\ ~fr.allowNonFlagFlags /\ fr.openFlagDef = <<>>

\* else if !allowNonFlagFlags: a token with the flag marker that matched no
\* flag definition is an error
rejectsUnknownFlag(fr, isFlag, ok) == isFlag /\ ~ok /\ ~fr.allowNonFlagFlags

\* parseArg with a slip: while a flag awaits its value, a token that is no
\* known flag is taken as that value before the subcommands are looked at
parseArg_valueBeforeSubcommand(fr) ==
    LET token    == fr.args[fr.pos + 1]
        isFlag   == HasPrefix(token, DashDash)
        cut      == Cut(TrimPrefix(token, DashDash), "=")
        value    == cut[2]
        hasValue == cut[3]
        arg      == argAfterFlagSyntax(token)
        ok       == isFlag /\ arg \in DOMAIN fr.allFlags
        lowerArg == ToLower(arg)
        sub      == matchSubcommand(fr.root, lowerArg)
        after    == IF ok
                    THEN parseFlag(fr, fr.allFlags[arg], arg, value, hasValue)
                    ELSE IF rejectsUnknownFlag(fr, isFlag, ok)
                    THEN fail(fr, UnknownFlagNameError(arg))
                    ELSE IF sub # 0 /\ fr.openFlagDef = <<>>
                    THEN parseSubcommand(fr, subcommands(fr.root)[sub])
                    ELSE parseValueOrArg(fr, arg)
    IN  IF after.returned THEN after ELSE [after EXCEPT !.pos = fr.pos + 1]

\* the body of the loop of parse, for the token at fr.pos
parseArg(fr) ==
    LET token    == fr.args[fr.pos + 1]
        isFlag   == HasPrefix(token, DashDash)
        cut      == Cut(TrimPrefix(token, DashDash), "=")
        value    == cut[2]
        hasValue == cut[3]
        arg      == argAfterFlagSyntax(token)
        ok       == isFlag /\ arg \in DOMAIN fr.allFlags
        lowerArg == ToLower(arg)
        sub      == matchSubcommand(fr.root, lowerArg)
        after    == IF ok
                    THEN parseFlag(fr, fr.allFlags[arg], arg, value, hasValue)
                    ELSE IF rejectsUnknownFlag(fr, isFlag, ok)
                    THEN fail(fr, UnknownFlagNameError(arg))
                    ELSE IF sub # 0
                    THEN parseSubcommand(fr, subcommands(fr.root)[sub])
                    ELSE parseValueOrArg(fr, arg)
    IN  IF after.returned THEN after ELSE [after EXCEPT !.pos = fr.pos + 1]

\* parseEnd with a slip: a flag still awaiting its value is closed with an
\* empty value, as it is before a flag or a subcommand
parseEnd_closesOpenFlag(fr) ==
    LET closed == IF fr.openFlagDef # <<>>
                  THEN bind(fr, fr.openFlagDef[1], fr.openFlagArg, <<>>, "close")
                  ELSE fr
    IN  [closed EXCEPT !.returned = TRUE]

\* return res, nil after the loop
parseEnd(fr) == [fr EXCEPT !.returned = TRUE]

RECURSIVE parseLoop(_)
\* the loop of parse from frame fr on
parseLoop(fr) ==
    IF fr.returned THEN fr
    ELSE IF fr.pos >= Len(fr.args) THEN parseEnd(fr)
    ELSE parseLoop(parseArg(fr))

\* parse, as a function of its arguments
parse(root, args, allowNonFlagFlags) ==
    parseLoop(parseEnter(root, args, allowNonFlagFlags))


(***************************************************************************)
(* The applications and token vocabularies the model routes.               *)
(***************************************************************************)
\* ExampleApplication: a global valueless bool flag, a leaf command and a
\* nested command that owns an unrestricted string flag
ExampleApplication ==
    Application(
        <<Command(<<"h", "e", "l", "p">>, <<>>, <<>>, <<>>, FALSE, FALSE),
          Command(<<"f", "o", "o">>, <<>>, <<>>,
                  <<Command(<<"b", "a", "r">>, <<>>,
                            <<FlagDef(<<"q", "u", "u", "x">>, <<>>, TRUE, FALSE, "StringParser")>>,
                            <<>>, FALSE, FALSE)>>,
                  FALSE, FALSE)>>,
        <<FlagDef(<<"b", "a", "a", "z">>, <<>>, FALSE, FALSE, "BoolParser")>>)

ExampleTokens ==
    {<<"h", "e", "l", "p">>, <<"f", "o", "o">>, <<"b", "a", "r">>,
     <<"-", "-", "q", "u", "u", "x">>, <<"-", "-", "q", "u", "u", "x", "=", "h", "i">>,
     <<"h", "i">>, <<"-", "-", "b", "a", "a", "z">>}

\* TestRoute "list-flags": a command that owns a repeatable string flag
ListFlagsApplication ==
    Application(
        <<Command(<<"h", "e", "l", "l", "o">>, <<>>,
                  <<FlagDef(<<"n", "a", "m", "e">>, <<>>, TRUE, FALSE, "StringListParser")>>,
                  <<>>, FALSE, FALSE)>>,
        <<>>)

ListFlagsTokens ==
    {<<"h", "e", "l", "l", "o">>, <<"-", "-", "n", "a", "m", "e">>,
     <<"-", "-", "n", "a", "m", "e", "=", "f", "o", "o">>,
     <<"b", "a", "r">>, <<"b", "a", "a", "z">>}

\* commands that accept positional arguments: a parent with an alias and a
\* mixed-case name, two children that answer to the same token, and a flag
\* on the parent and on the first child
ArgsApplication ==
    Application(
        <<Command(<<"F", "o", "o">>, <<<<"f">>>>,
                  <<FlagDef(<<"v">>, <<>>, TRUE, TRUE, "StringParser")>>,
                  <<Command(<<"b", "a", "r">>, <<>>,
                            <<FlagDef(<<"w">>, <<>>, TRUE, TRUE, "StringParser")>>,
                            <<>>, TRUE, FALSE),
                    Command(<<"q", "u", "x">>, <<<<"B", "a", "r">>>>, <<>>, <<>>, FALSE, FALSE)>>,
                  TRUE, FALSE)>>,
        <<>>)

ArgsTokens ==
    {<<"F", "O", "O">>, <<"f">>, <<"B", "A", "R">>, <<"q", "u", "x">>,
     <<"-", "-", "v">>, <<"-", "-", "w">>, <<"-", "-", "w", "=", "1">>, <<"e", "x">>}

\* commands with AllowNonFlagFlags: one that accepts arguments and has a
\* child whose name starts with the flag marker and a child whose name does
\* not, and one that accepts no arguments
NonFlagFlagsApplication ==
    Application(
        <<Command(<<"c">>, <<>>,
                  <<FlagDef(<<"s">>, <<>>, TRUE, TRUE, "StringParser")>>,
                  <<Command(<<"-", "-", "x">>, <<>>, <<>>, <<>>, FALSE, FALSE),
                    Command(<<"x">>, <<>>, <<>>, <<>>, FALSE, FALSE)>>,
                  TRUE, TRUE),
          Command(<<"d">>, <<>>,
                  <<FlagDef(<<"t">>, <<>>, TRUE, TRUE, "StringParser")>>,
                  <<>>, FALSE, TRUE)>>,
        <<>>)

NonFlagFlagsTokens ==
    {<<"c">>, <<"d">>, <<"-", "-", "x">>, <<"-", "-", "N", "o", "=", "1">>,
     <<"-", "-", "s">>, <<"-", "-", "t">>, <<"V">>}

\* global flags of each kind: a valueless bool, a bool and an int that
\* accept a value
FlagKindsApplication ==
    Application(
        <<Command(<<"r", "u", "n">>, <<>>, <<>>, <<>>, FALSE, FALSE)>>,
        <<FlagDef(<<"b">>, <<>>, FALSE, FALSE, "BoolParser"),
          FlagDef(<<"e">>, <<>>, TRUE, FALSE, "BoolParser"),
          FlagDef(<<"i">>, <<>>, TRUE, FALSE, "IntParser")>>)

FlagKindsTokens ==
    {<<"r", "u", "n">>, <<"-", "-", "b">>, <<"-", "-", "b", "=", "t", "r", "u", "e">>,
     <<"-", "-", "B", "=">>, <<"-", "-", "e">>, <<"-", "-", "e", "=", "f", "a", "l", "s", "e">>,
     <<"-", "-", "e", "=", "n", "o">>, <<"-", "-", "i">>, <<"7">>}

Scenarios ==
    {[app |-> ExampleApplication,      tokens |-> ExampleTokens],
     [app |-> ListFlagsApplication,    tokens |-> ListFlagsTokens],
     [app |-> ArgsApplication,         tokens |-> ArgsTokens],
     [app |-> NonFlagFlagsApplication, tokens |-> NonFlagFlagsTokens],
     [app |-> FlagKindsApplication,    tokens |-> FlagKindsTokens]}

\* every input of at most MaxLen tokens
Inputs(tokens) == UNION {[1..n -> tokens] : n \in 0..MaxLen}

(***************************************************************************)
(* The router: one call of Route(ctx, root, input).                        *)
(***************************************************************************)
VARIABLES
    app,      \* the Application passed to Route (root)
    input,    \* the input passed to Route
    pc,       \* where Route is: "route", "parse" or "done"
    frame,    \* the invocation of parse that is running or has just returned
    result,   \* RouteResult
    cmdPath,  \* the commands matched so far
    err,      \* the error Route returned, nil (<<>>) when none
    levels,   \* the frames of the invocations of parse that have returned
    run       \* Application.Run: the Response's Code, the calls made to the
              \* HandlerBuilder and the Handler, what was written to
              \* Response.Error, and the status code returned

vars == <<app, input, pc, frame, result, cmdPath, err, levels, run>>

\* resp := &Response{Code: 0}, before any call and any output
newRun == [code |-> 0, called |-> <<>>, written |-> <<>>, returned |-> <<>>,
           usage |-> <<>>]

\* Command{}
zeroCommand == Command(<<>>, <<>>, <<>>, <<>>, FALSE, FALSE)

Init ==
    \E sc \in Scenarios :
        \E in \in Inputs(sc.tokens) :
            /\ app = sc.app
            /\ input = in
            /\ pc = "route"
            /\ frame = parseEnter(sc.app, <<>>, FALSE)
            /\ result = [Command |-> zeroCommand, Flags |-> EmptyMap, Args |-> <<>>]
            /\ cmdPath = <<>>
            /\ err = <<>>
            /\ levels = <<>>
            /\ run = newRun

\* Route calls parse on the root
RouteBegin ==
    /\ pc = "route"
    /\ pc' = "parse"
    /\ frame' = parseEnter(app, input, FALSE)
    /\ UNCHANGED <<app, input, result, cmdPath, err, levels, run>>

\* one iteration of the loop of parse
ParseArg ==
    /\ pc = "parse"
    /\ ~frame.returned
    /\ frame.pos < Len(frame.args)
    /\ frame' = parseArg(frame)
    /\ UNCHANGED <<app, input, pc, result, cmdPath, err, levels, run>>

\* parse reaches the end of args
ParseEnd ==
    /\ pc = "parse"
    /\ ~frame.returned
    /\ frame.pos >= Len(frame.args)
    /\ frame' = parseEnd(frame)
    /\ UNCHANGED <<app, input, pc, result, cmdPath, err, levels, run>>

\* merge with a slip: an entry that is already in result.Flags is kept
merge_keepsEarlier(res, parsed) ==
    [res EXCEPT !.Flags = MapsCopy(parsed.flags, @), !.Args = @ \o parsed.args]

\* merge with a slip: the arguments of the level are put before those of
\* the levels above
merge_prependsArgs(res, parsed) ==
    [res EXCEPT !.Flags = MapsCopy(@, parsed.flags), !.Args = parsed.args \o @]

\* maps.Copy(result.Flags, parsed.flags); result.Args = append(result.Args, parsed.args...)
merge(res, parsed) ==
    [res EXCEPT !.Flags = MapsCopy(@, parsed.flags), !.Args = @ \o parsed.args]

\* parse returned an error: Route returns it
RouteError ==
    /\ pc = "parse"
    /\ frame.returned
    /\ frame.err # <<>>
    /\ err' = frame.err
    /\ pc' = "done"
    /\ levels' = Append(levels, frame)
    /\ UNCHANGED <<app, input, frame, result, cmdPath, run>>

\* RouteDescend with a slip: the command of the result is set by the first
\* match only
RouteDescend_keepsFirstCommand ==
    /\ pc = "parse"
    /\ frame.returned
    /\ frame.err = <<>>
    /\ frame.res.subcommand # <<>>
    /\ LET merged == merge(result, frame.res)
           sub    == frame.res.subcommand[1]
       IN  /\ result' = IF cmdPath = <<>> THEN [merged EXCEPT !.Command = sub] ELSE merged
           /\ cmdPath' = Append(cmdPath, sub)
           /\ frame' = parseEnter(sub, frame.res.unparsed, sub.AllowNonFlagFlags)
    /\ levels' = Append(levels, frame)
    /\ UNCHANGED <<app, input, pc, err, run>>

\* RouteDescend with a slip: the subcommand is parsed with the setting its
\* parent was parsed with
RouteDescend_inheritsSetting ==
    /\ pc = "parse"
    /\ frame.returned
    /\ frame.err = <<>>
    /\ frame.res.subcommand # <<>>
    /\ LET merged == merge(result, frame.res)
           sub    == frame.res.subcommand[1]
       IN  /\ result' = [merged EXCEPT !.Command = sub]
           /\ cmdPath' = Append(cmdPath, sub)
           /\ frame' = parseEnter(sub, frame.res.unparsed, frame.allowNonFlagFlags)
    /\ levels' = Append(levels, frame)
    /\ UNCHANGED <<app, input, pc, err, run>>

\* RouteDescend with a slip: the subcommand is given the whole window of
\* its parent instead of what follows its name
RouteDescend_reparsesWindow ==
    /\ pc = "parse"
    /\ frame.returned
    /\ frame.err = <<>>
    /\ frame.res.subcommand # <<>>
    /\ LET merged == merge(result, frame.res)
           sub    == frame.res.subcommand[1]
       IN  /\ result' = [merged EXCEPT !.Command = sub]
           /\ cmdPath' = Append(cmdPath, sub)
           /\ frame' = parseEnter(sub, frame.args, sub.AllowNonFlagFlags)
    /\ levels' = Append(levels, frame)
    /\ UNCHANGED <<app, input, pc, err, run>>

\* parse returned a subcommand: Route merges the level, makes the
\* subcommand the command and calls parse on it
RouteDescend ==
    /\ pc = "parse"
    /\ frame.returned
    /\ frame.err = <<>>
    /\ frame.res.subcommand # <<>>
    /\ LET merged == merge(result, frame.res)
           sub    == frame.res.subcommand[1]
       IN  /\ result' = [merged EXCEPT !.Command = sub]
           /\ cmdPath' = Append(cmdPath, sub)
           /\ frame' = parseEnter(sub, frame.res.unparsed, sub.AllowNonFlagFlags)
    /\ levels' = Append(levels, frame)
    /\ UNCHANGED <<app, input, pc, err, run>>

\* parse returned no subcommand: Route merges the level and returns
RouteReturn ==
    /\ pc = "parse"
    /\ frame.returned
    /\ frame.err = <<>>
    /\ frame.res.subcommand = <<>>
    /\ LET merged == merge(result, frame.res)
       IN  /\ result' = merged
           /\ err' = IF Len(frame.res.unparsed) > 0
                     THEN <<ExtraInputError(app, cmdPath, merged.Flags, merged.Args,
                                            frame.res.unparsed)>>
                     ELSE <<>>
    /\ pc' = "done"
    /\ levels' = Append(levels, frame)
    /\ UNCHANGED <<app, input, frame, cmdPath, run>>

Next ==
    \/ RouteBegin
    \/ ParseArg
    \/ ParseEnd
    \/ RouteError
    \/ RouteDescend
    \/ RouteReturn

Spec == Init /\ [][Next]_vars

(***************************************************************************)
(* A family of command trees: a global flag, a command p that owns a flag  *)
(* and a child q that owns a flag.  The names, the alias, the visibility   *)
(* of the flags and the settings of p vary, so that the family holds trees *)
(* with and without colliding flag keys at each level.                     *)
(***************************************************************************)
MaxTreeLen == 3

TreeChoices ==
    [pName       : {<<"X">>, <<"y">>},
     pAliases    : {<<>>, <<<<"Y">>>>, <<<<"z">>>>},
     pRestricted : BOOLEAN,
     qName       : {<<"y">>, <<"z">>},
     qRestricted : BOOLEAN,
     pArgs       : BOOLEAN,
     pAllow      : BOOLEAN]

TreeApplication(t) ==
    Application(
        <<Command(<<"p">>, <<>>,
                  <<FlagDef(t.pName, t.pAliases, TRUE, t.pRestricted, "StringParser")>>,
                  <<Command(<<"q">>, <<>>,
                            <<FlagDef(t.qName, <<>>, TRUE, t.qRestricted, "StringParser")>>,
                            <<>>, FALSE, FALSE)>>,
                  t.pArgs, t.pAllow)>>,
        <<FlagDef(<<"x">>, <<>>, FALSE, FALSE, "BoolParser")>>)

TreeTokens ==
    {<<"p">>, <<"q">>, <<"-", "-", "x">>, <<"-", "-", "z">>, <<"-", "-", "Y", "=", "v">>}

\* every input of at most MaxTreeLen tokens
TreeInputs == UNION {[1..n -> TreeTokens] : n \in 0..MaxTreeLen}

TreeInit ==
    \E t \in TreeChoices :
        \E in \in TreeInputs :
            /\ app = TreeApplication(t)
            /\ input = in
            /\ pc = "route"
            /\ frame = parseEnter(TreeApplication(t), <<>>, FALSE)
            /\ result = [Command |-> zeroCommand, Flags |-> EmptyMap, Args |-> <<>>]
            /\ cmdPath = <<>>
            /\ err = <<>>
            /\ levels = <<>>
            /\ run = newRun

\* Route over the family of trees
TreeSpec == TreeInit /\ [][Next]_vars

(***************************************************************************)
(* Application.Run: Route, then HandlerBuilder.Build, then Handler.Handle. *)
(* What Build and Handle do is the application's: each may leave any       *)
(* status code in the Response.                                            *)
(***************************************************************************)
MaxRunLen == 2

\* the status codes a HandlerBuilder or a Handler leaves in Response.Code
RunCodes == {-1, 0, 1, 2}

\* a command with a Handler set
WithHandler(cmd) == [cmd EXCEPT !.Handler = <<"HandlerBuilder">>]

\* a command with Hidden set
WithHidden(cmd) == [cmd EXCEPT !.Hidden = TRUE]

\* a command with a Description
WithDescription(cmd, text) == [cmd EXCEPT !.Description = text]

\* a command with a handler and a description that accepts arguments and
\* has a hidden child with a handler, a hidden command without handler, and
\* a command with a long name and neither handler nor description; the
\* application owns a string flag
RunApplication ==
    Application(
        <<WithDescription(
              WithHandler(Command(<<"a">>, <<>>, <<>>,
                                  <<WithHidden(WithHandler(
                                        Command(<<"k">>, <<>>, <<>>, <<>>, FALSE, FALSE)))>>,
                                  TRUE, FALSE)),
              <<"d", "o">>),
          WithHidden(Command(<<"b">>, <<>>, <<>>, <<>>, FALSE, FALSE)),
          Command(<<"l", "o", "n", "g", "e", "r">>, <<>>, <<>>, <<>>, FALSE, FALSE)>>,
        <<FlagDef(<<"s">>, <<>>, TRUE, FALSE, "StringParser")>>)

RunTokens == {<<"a">>, <<"k">>, <<"b">>, <<"x">>, <<"-", "-", "s">>}

\* every input of at most MaxRunLen tokens
RunInputs == UNION {[1..n -> RunTokens] : n \in 0..MaxRunLen}

\* Run is called with WithArgs(in): the Response is made, Route is next
RunInit ==
    \E in \in RunInputs :
        /\ app = RunApplication
        /\ input = in
        /\ pc = "route"
        /\ frame = parseEnter(RunApplication, <<>>, FALSE)
        /\ result = [Command |-> zeroCommand, Flags |-> EmptyMap, Args |-> <<>>]
        /\ cmdPath = <<>>
        /\ err = <<>>
        /\ levels = <<>>
        /\ run = newRun

\* Route returned an error: it is written to Response.Error, Run returns 1
RunRouteFailed ==
    /\ pc = "done"
    /\ err # <<>>
    /\ run' = [run EXCEPT !.written = Append(@, "error"), !.returned = <<1>>]
    /\ pc' = "returned"
    /\ UNCHANGED <<app, input, frame, result, cmdPath, err, levels>>

\* RunNoHandler with a slip: Run returns the Code of the Response, which
\* nothing has set
RunNoHandler_returnsCode ==
    /\ pc = "done"
    /\ err = <<>>
    /\ result.Command.Handler = <<>>
    /\ run' = [run EXCEPT !.written = Append(@, "invalid command"),
                          !.returned = <<run.code>>]
    /\ pc' = "returned"
    /\ UNCHANGED <<app, input, frame, result, cmdPath, err, levels>>

\* the command Route resolved has no Handler: Run returns 1
RunNoHandler ==
    /\ pc = "done"
    /\ err = <<>>
    /\ result.Command.Handler = <<>>
    /\ run' = [run EXCEPT !.written = Append(@, "invalid command"), !.returned = <<1>>]
    /\ pc' = "returned"
    /\ UNCHANGED <<app, input, frame, result, cmdPath, err, levels>>

\* handler := result.Command.Handler.Build(ctx, result.Flags, result.Args, resp)
RunBuild ==
    /\ pc = "done"
    /\ err = <<>>
    /\ result.Command.Handler # <<>>
    /\ \E code \in RunCodes :
           run' = [run EXCEPT !.called = Append(@, "Build"), !.code = code]
    /\ pc' = "built"
    /\ UNCHANGED <<app, input, frame, result, cmdPath, err, levels>>

\* if resp.Code > 0 { return resp.Code }
RunBuildFailed ==
    /\ pc = "built"
    /\ run.code > 0
    /\ run' = [run EXCEPT !.returned = <<run.code>>]
    /\ pc' = "returned"
    /\ UNCHANGED <<app, input, frame, result, cmdPath, err, levels>>

\* RunHandle with a slip: the code Build left is not looked at
RunHandle_ignoresBuildCode ==
    /\ pc = "built"
    /\ \E code \in RunCodes :
           run' = [run EXCEPT !.called = Append(@, "Handle"), !.code = code]
    /\ pc' = "handled"
    /\ UNCHANGED <<app, input, frame, result, cmdPath, err, levels>>

\* handler.Handle(ctx, resp)
RunHandle ==
    /\ pc = "built"
    /\ ~(run.code > 0)
    /\ \E code \in RunCodes :
           run' = [run EXCEPT !.called = Append(@, "Handle"), !.code = code]
    /\ pc' = "handled"
    /\ UNCHANGED <<app, input, frame, result, cmdPath, err, levels>>

\* return resp.Code
RunReturn ==
    /\ pc = "handled"
    /\ run' = [run EXCEPT !.returned = <<run.code>>]
    /\ pc' = "returned"
    /\ UNCHANGED <<app, input, frame, result, cmdPath, err, levels>>

RunNext ==
    \/ RouteBegin
    \/ ParseArg
    \/ ParseEnd
    \/ RouteError
    \/ RouteDescend
    \/ RouteReturn
    \/ RunRouteFailed
    \/ RunNoHandler
    \/ RunBuild
    \/ RunBuildFailed
    \/ RunHandle
    \/ RunReturn


(***************************************************************************)
(* Route over trees in which commands that are not on one path own a flag  *)
(* of the same name.                                                       *)
(***************************************************************************)
MaxSiblingLen == 3

\* which of the three flags named r is restricted to its command
SiblingChoices == [oRestricted : BOOLEAN, nRestricted : BOOLEAN, wRestricted : BOOLEAN]

\* command m with a child o, and the commands n and w; o, n and w each own
\* a flag r, each of another type
SiblingApplication(t) ==
    Application(
        <<Command(<<"m">>, <<>>, <<>>,
                  <<Command(<<"o">>, <<>>,
                            <<FlagDef(<<"r">>, <<>>, TRUE, t.oRestricted, "StringParser")>>,
                            <<>>, FALSE, FALSE)>>,
                  FALSE, FALSE),
          Command(<<"n">>, <<>>,
                  <<FlagDef(<<"r">>, <<>>, TRUE, t.nRestricted, "IntParser")>>,
                  <<>>, FALSE, FALSE),
          Command(<<"w">>, <<>>,
                  <<FlagDef(<<"R">>, <<>>, TRUE, t.wRestricted, "BoolParser")>>,
                  <<>>, FALSE, FALSE)>>,
        <<>>)

SiblingTokens == {<<"m">>, <<"o">>, <<"n">>, <<"w">>, <<"-", "-", "r", "=", "1">>}

\* every input of at most MaxSiblingLen tokens
SiblingInputs == UNION {[1..n -> SiblingTokens] : n \in 0..MaxSiblingLen}

SiblingInit ==
    \E t \in SiblingChoices :
        \E in \in SiblingInputs :
            /\ app = SiblingApplication(t)
            /\ input = in
            /\ pc = "route"
            /\ frame = parseEnter(SiblingApplication(t), <<>>, FALSE)
            /\ result = [Command |-> zeroCommand, Flags |-> EmptyMap, Args |-> <<>>]
            /\ cmdPath = <<>>
            /\ err = <<>>
            /\ levels = <<>>
            /\ run = newRun

SiblingSpec == SiblingInit /\ [][Next]_vars

RunSpec == RunInit /\ [][RunNext]_vars

\* Run and the Route call in it run to their return: they are sequential
\* code, a step that can be taken is taken
RunLiveSpec == RunInit /\ [][RunNext]_vars /\ WF_vars(RunNext)

(***************************************************************************)
(* SubcommandsHelp: the usage text of the subcommands of a command or an   *)
(* application, written through                                            *)
(* tabwriter.NewWriter(&builder, 4, 4, 1, '\t', 0).                        *)
(***************************************************************************)
MaxHelpCommands == 2

\* tabwriter: the width of the one column, which holds the names: the
\* widest name plus the padding of 1, at least the minwidth of 4, rounded
\* up to a multiple of the tabwidth of 4 as the padding character is a tab
columnWidth(cmds) ==
    LET widths == {Len(cmds[i].Name) + 1 : i \in 1..Len(cmds)} \cup {4}
        width  == CHOOSE w \in widths : \A v \in widths : v <= w
    IN  ((width + 3) \div 4) * 4

\* tabwriter: the tabs that pad a text of width textw to the cell's width
writePadding(textw, cellw) == [i \in 1..((cellw - textw + 3) \div 4) |-> "\t"]

\* writer.Write([]byte(cmd.Name + "\t" + cmd.Description + "\n")), as
\* flushed: the description ends the line and belongs to no column
writeLine(cmd, cellw) ==
    cmd.Name \o writePadding(Len(cmd.Name), cellw) \o cmd.Description \o <<"\n">>

\* for _, cmd := range command.subcommands() { writer.Write(...) }
RECURSIVE writeLines(_, _)
writeLines(cmds, cellw) ==
    IF Len(cmds) = 0 THEN <<>>
    ELSE writeLine(Head(cmds), cellw) \o writeLines(Tail(cmds), cellw)

SubcommandsHelp(command) ==
    writeLines(subcommands(command), columnWidth(subcommands(command)))

\* the commands an application may list: short or long name, with or
\* without description, hidden or not
HelpCommands ==
    {[Command(name, <<>>, <<>>, <<>>, FALSE, FALSE)
          EXCEPT !.Description = description, !.Hidden = hidden] :
        name \in {<<"a">>, <<"l", "o", "n", "g">>},
        description \in {<<>>, <<"d", "o">>},
        hidden \in BOOLEAN}

\* an application of at most MaxHelpCommands commands, about to be listed
HelpInit ==
    \E commands \in UNION {[1..n -> HelpCommands] : n \in 0..MaxHelpCommands} :
        /\ app = Application(commands, <<>>)
        /\ input = <<>>
        /\ pc = "help"
        /\ frame = parseEnter(Application(commands, <<>>), <<>>, FALSE)
        /\ result = [Command |-> zeroCommand, Flags |-> EmptyMap, Args |-> <<>>]
        /\ cmdPath = <<>>
        /\ err = <<>>
        /\ levels = <<>>
        /\ run = newRun

\* SubcommandsHelp(app)
Help ==
    /\ pc = "help"
    /\ run' = [run EXCEPT !.usage = SubcommandsHelp(app)]
    /\ pc' = "helped"
    /\ UNCHANGED <<app, input, frame, result, cmdPath, err, levels>>

HelpSpec == HelpInit /\ [][Help]_vars


(***************************************************************************)
(* Helpers of the properties                                               *)
(***************************************************************************)
\* the elements of a sequence
Range(seq) == {seq[i] : i \in 1..Len(seq)}

\* the invocations of parse that have returned, and the one that is running
Frames == Range(levels) \cup (IF pc = "parse" THEN {frame} ELSE {})

\* the invocations of parse that have returned
ReturnedFrames == {fr \in Frames : fr.returned}

\* a token that does not start with the flag marker
IsPlain(token) == ~HasPrefix(token, DashDash)

\* fr parsed a command without subcommands whose window is ["--f", x], f the
\* name of a value-accepting flag the command owns and x a plain token
SeparateFormWindow(fr) ==
    /\ fr.root.Kind = "Command"
    /\ Len(subcommands(fr.root)) = 0
    /\ Len(fr.args) = 2
    /\ IsPlain(fr.args[2])
    /\ \E i \in 1..Len(fr.root.Flags) :
           /\ fr.root.Flags[i].ValueAccepted
           /\ fr.args[1] = DashDash \o fr.root.Flags[i].Name

\* the window ["--f=x"] for the window ["--f", x]
InlineForm(args) == <<args[1] \o <<"=">> \o args[2]>>

\* the level fr, whose window is ["--f", x], and the parse of ["--f=x"] by
\* the same command bind f to the same value, of raw value x, and give the
\* same arguments
SeparateAgreesWithInline(fr) ==
    LET other == parse(fr.root, InlineForm(fr.args), fr.allowNonFlagFlags)
        key   == ToLower(TrimPrefix(fr.args[1], DashDash))
    IN  /\ other.err = <<>>
        /\ fr.err = <<>>
        /\ key \in DOMAIN other.res.flags
        /\ key \in DOMAIN fr.res.flags
        /\ fr.res.flags[key] = other.res.flags[key]
        /\ GetRawValue(fr.res.flags[key]) = fr.args[2]
        /\ fr.res.args = other.res.args

(***************************************************************************)
(* C1 (as stated): for every command that owns a value-accepting flag f    *)
(* and has no subcommands, whether or not it accepts positional arguments, *)
(* the windows ["--f", "x"] and ["--f=x"] bind the same value for f, with  *)
(* raw value "x", and yield the same positional arguments.                 *)
(***************************************************************************)
C1_SeparateAndInlineAgree_Original ==
    \A fr \in ReturnedFrames :
        SeparateFormWindow(fr) => SeparateAgreesWithInline(fr)

(***************************************************************************)
(* C1 (amended): for every command that owns a value-accepting flag f, has *)
(* no subcommands and does not accept positional arguments, the windows    *)
(* ["--f", "x"] and ["--f=x"] bind the same value for f, with raw value    *)
(* "x", and yield the same positional arguments.                           *)
(***************************************************************************)
C1_SeparateAndInlineAgree ==
    \A fr \in ReturnedFrames :
        (SeparateFormWindow(fr) /\ ~argsAccepted(fr.root)) => SeparateAgreesWithInline(fr)

\* a command that accepts no arguments has parsed ["--f", x], x with an
\* upper-case letter, and bound x to f
C1_Witness ==
    \E fr \in ReturnedFrames :
        /\ SeparateFormWindow(fr)
        /\ ~argsAccepted(fr.root)
        /\ fr.args[2] # ToLower(fr.args[2])
        /\ \E k \in DOMAIN fr.res.flags : GetRawValue(fr.res.flags[k]) = fr.args[2]

(***************************************************************************)
(* C2 (as stated): when Route has matched a leaf command that has no       *)
(* subcommands and accepts no positional arguments and a non-flag token is *)
(* left over after the command name, Route fails with ExtraInputError      *)
(* whose ExtraInput names the leftover token and whose CommandPath is the  *)
(* matched command path.                                                   *)
(***************************************************************************)
C2_ExtraInputError ==
    ( /\ pc = "done"
      /\ Len(cmdPath) >= 1
      /\ frame.root = cmdPath[Len(cmdPath)]
      /\ Len(subcommands(frame.root)) = 0
      /\ ~argsAccepted(frame.root)
      /\ Len(frame.args) >= 1
      /\ IsPlain(frame.args[1]) )
    => ( /\ err # <<>>
         /\ err[1].Type = "ExtraInputError"
         /\ frame.args[1] \in Range(err[1].ExtraInput)
         /\ err[1].CommandPath = cmdPath )


RECURSIVE CommandsIn(_)
\* the commands of a list of commands and of their subtrees
CommandsIn(subs) ==
    IF Len(subs) = 0 THEN {}
    ELSE {Head(subs)} \cup CommandsIn(Head(subs).Subcommands) \cup CommandsIn(Tail(subs))

\* the lower-cased name and aliases of a command
CommandKeys(cmd) == {ToLower(cmd.Name)} \cup {ToLower(cmd.Aliases[i]) : i \in 1..Len(cmd.Aliases)}

\* the token is "--n" or "--n=v" for a name or alias n of the flag definition
NamesFlag(token, flagDef) ==
    /\ HasPrefix(token, DashDash)
    /\ ToLower(Cut(TrimPrefix(token, DashDash), "=")[1]) \in Range(flagKeys(flagDef))

\* the token at position i of the input supplies a value to the flag: inline,
\* or in the next token, which is plain and is no command name
SuppliesValue(in, i, flagDef) ==
    /\ NamesFlag(in[i], flagDef)
    /\ \/ Cut(TrimPrefix(in[i], DashDash), "=")[3]
       \/ /\ i < Len(in)
          /\ IsPlain(in[i + 1])
          /\ \A cmd \in CommandsIn(app.Commands) : ToLower(in[i + 1]) \notin CommandKeys(cmd)

RECURSIVE SuppliedValues(_, _, _)
\* the values the input supplies to the flag from position i on, in input order
SuppliedValues(in, i, flagDef) ==
    IF i > Len(in) THEN <<>>
    ELSE IF SuppliesValue(in, i, flagDef)
    THEN LET cut == Cut(TrimPrefix(in[i], DashDash), "=")
         IN  <<IF cut[3] THEN cut[2] ELSE in[i + 1]>> \o SuppliedValues(in, i + 1, flagDef)
    ELSE SuppliedValues(in, i + 1, flagDef)

\* the list flags of the application
ListFlagDefs == {d \in Range(listFlagDefs(app, TRUE)) : d.Parser = "StringListParser"}

(***************************************************************************)
(* C3 (as stated): for every Route input in which a list flag occurs k     *)
(* times, as "--name v" or "--name=v", before the owning command's name,   *)
(* after it or split across both, the routed result holds a single value   *)
(* for that flag whose list is the k supplied values in input order.       *)
(***************************************************************************)
C3_ListFlagAccumulates ==
    \A d \in ListFlagDefs :
        ( /\ pc = "done"
          /\ err = <<>>
          /\ \A i \in 1..Len(input) : NamesFlag(input[i], d) => SuppliesValue(input, i, d)
          /\ \E i \in 1..Len(input) : NamesFlag(input[i], d) )
        => ( /\ Cardinality(DOMAIN result.Flags \cap Range(flagKeys(d))) = 1
             /\ \A k \in DOMAIN result.Flags \cap Range(flagKeys(d)) :
                    /\ result.Flags[k].Type = "ListFlag[string]"
                    /\ result.Flags[k].Value.strings = SuppliedValues(input, 1, d) )


\* parse is in its loop, at the token Token
Scanning == pc = "parse" /\ ~frame.returned /\ frame.pos < Len(frame.args)

\* the token the loop of parse is at
Token == frame.args[frame.pos + 1]

\* the lower-cased text between the flag marker and the first "="
FlagNameOf(token) == ToLower(Cut(TrimPrefix(token, DashDash), "=")[1])

\* the text after the first "=" of a token, and whether there is one
InlineValueOf(token) == Cut(TrimPrefix(token, DashDash), "=")[2]

HasInlineValue(token) == Cut(TrimPrefix(token, DashDash), "=")[3]

\* the keys of the flattened namespace of root as the active level
NamespaceKeys(root) == UNION {Range(flagKeys(d)) : d \in Range(listFlagDefs(root, TRUE))}

\* the children of root, by index, whose name or an alias equals the text,
\* letter case apart
MatchingChildren(root, text) ==
    {i \in 1..Len(subcommands(root)) : ToLower(text) \in CommandKeys(subcommands(root)[i])}

\* the least index of a non-empty set of indices
FirstOf(S) == CHOOSE i \in S : \A j \in S : i <= j

\* the tokens strictly after the token fr is at
TailAfter(fr) == SubSeq(fr.args, fr.pos + 2, Len(fr.args))

\* what the converter of the flag awaiting a value in fr returns for an
\* empty value
ClosingResult(fr) ==
    Parse(fr.openFlagDef[1].Parser, fr.openFlagArg, <<>>, MapGet(fr.res.flags, fr.openFlagArg))

\* a flag is awaiting a value in fr and its converter rejects the empty value
ClosingFails(fr) == fr.openFlagDef # <<>> /\ ClosingResult(fr).err # <<>>

C4_StopsAtMatch ==
    (Scanning /\ IsPlain(Token) /\ MatchingChildren(frame.root, Token) # {})
    => ( /\ frame'.returned
         /\ frame'.pos = frame.pos
         /\ frame'.res.args = frame.res.args
         /\ IF ClosingFails(frame)
            THEN /\ frame'.err = ClosingResult(frame).err
                 /\ frame'.res.subcommand = <<>>
            ELSE /\ frame'.err = <<>>
                 /\ frame'.res.subcommand # <<>>
                 /\ frame'.res.unparsed = TailAfter(frame) )

\* an invocation of parse that has returned classifies no further token
C4_NoScanAfterReturn ==
    (pc = "parse" /\ frame.returned) => (frame' = frame \/ levels' = Append(levels, frame))

\* a level that recorded a child returned at the matching token: its tail is
\* every token after it, its arguments and converter calls come from the
\* tokens before it, and the tail is the window of the next level
C4_TailOfMatch ==
    /\ \A fr \in Frames :
           fr.res.subcommand # <<>>
           => ( /\ fr.returned
                /\ fr.err = <<>>
                /\ fr.res.unparsed = TailAfter(fr)
                /\ Len(fr.res.args) <= fr.pos
                /\ \A i \in 1..Len(fr.calls) : fr.calls[i].pos <= fr.pos )
    /\ \A k \in 1..Len(levels) :
           LET next == IF k < Len(levels) THEN levels[k + 1] ELSE frame
           IN  levels[k].res.subcommand # <<>>
               => ( /\ next.root = levels[k].res.subcommand[1]
                    /\ next.args = TailAfter(levels[k]) )

C6_UnknownFlagRejected ==
    [][ ( /\ Scanning
          /\ ~frame.allowNonFlagFlags
          /\ HasPrefix(Token, DashDash)
          /\ FlagNameOf(Token) \notin NamespaceKeys(frame.root) )
        => ( /\ frame'.returned
             /\ frame'.err = <<UnknownFlagNameError(FlagNameOf(Token))>>
             /\ frame'.res = frame.res
             /\ frame'.calls = frame.calls ) ]_vars

\* an unknown flag was rejected while a flag was awaiting its value
C6_Witness ==
    \E fr \in ReturnedFrames :
        /\ fr.err # <<>>
        /\ fr.err[1].Type = "UnknownFlagNameError"
        /\ fr.openFlagDef # <<>>
        /\ ~fr.allowNonFlagFlags
        /\ fr.err[1].Name = FlagNameOf(fr.args[fr.pos + 1])


(***************************************************************************)
(* C7 (as stated): when unknown-flag tokens are allowed at a level, a      *)
(* "--"-prefixed token that matches no flag definition is compared against *)
(* the children's names and aliases verbatim (marker and "=value" part not *)
(* stripped), case-insensitively: a child named "--x" is selected by the   *)
(* token "--x", and a child named "x" is not selected by the token "--x".  *)
(***************************************************************************)
C7_MarkerTokenComparedVerbatim ==
    [][ ( /\ Scanning
          /\ frame.allowNonFlagFlags
          /\ HasPrefix(Token, DashDash)
          /\ FlagNameOf(Token) \notin NamespaceKeys(frame.root) )
        => LET matching == MatchingChildren(frame.root, Token)
           IN  IF matching # {} /\ ~ClosingFails(frame)
               THEN frame'.res.subcommand = <<subcommands(frame.root)[FirstOf(matching)]>>
               ELSE frame'.res.subcommand = <<>> ]_vars

(***************************************************************************)
(* C8 (as stated): every string the parser hands on is the user's text as  *)
(* typed: the raw value passed to a converter for a flag value taken from  *)
(* a separate token, and every positional argument of the result, equals   *)
(* the whole input token, in its original case, also when the token starts *)
(* with "--" and unknown-flag tokens are allowed.                          *)
(***************************************************************************)
C8_TextHandedOnAsTyped ==
    \A fr \in Frames :
        /\ \A i \in 1..Len(fr.calls) :
               fr.calls[i].site = "value" => fr.calls[i].value = fr.args[fr.calls[i].pos + 1]
        /\ \A i \in 1..Len(fr.res.args) : fr.res.args[i] \in Range(fr.args)

\* the converter call, if any, that closes the flag awaiting a value in fr
ClosingCall(fr) ==
    IF fr.openFlagDef = <<>> THEN <<>>
    ELSE <<[def   |-> fr.openFlagDef[1], name |-> fr.openFlagArg, value |-> <<>>,
            prior |-> MapGet(fr.res.flags, fr.openFlagArg), pos |-> fr.pos, site |-> "close"]>>

\* the token names a flag of the namespace of the level that accepts no
\* value, and carries an inline value
ValuelessFlagWithInlineValue ==
    /\ Scanning
    /\ HasPrefix(Token, DashDash)
    /\ FlagNameOf(Token) \in DOMAIN frame.allFlags
    /\ ~frame.allFlags[FlagNameOf(Token)].ValueAccepted
    /\ HasInlineValue(Token)

BoolTexts == ParseBoolTrue \cup ParseBoolFalse \cup {<<"n", "o">>, <<"t", "r", "u", "E">>}

\* the parse, by the level of fr, of the one-token window made of the flag
\* key and the given rest ("" or "=value")
ParseOneFlagToken(fr, key, rest) ==
    parse(fr.root, <<DashDash \o key \o rest>>, fr.allowNonFlagFlags)

\* the bool flags of the namespace of the level of fr, by key
BoolFlagKeys(fr, valueAccepted) ==
    {k \in DOMAIN fr.allFlags :
        /\ fr.allFlags[k].Parser = "BoolParser"
        /\ fr.allFlags[k].ValueAccepted = valueAccepted}

\* ["--b"] binds the value-less bool flag b to true, with an empty raw value
BareBoolFlagIsTrue(fr, key) ==
    LET p == ParseOneFlagToken(fr, key, <<>>)
    IN  /\ p.err = <<>>
        /\ DOMAIN p.res.flags = {key}
        /\ p.res.flags[key] = BasicFlagBool(key, <<>>, TRUE)

\* ["--b=v"] binds b to the boolean v spells, or fails with the conversion
\* error of strconv.ParseBool when v spells none
InlineBoolIsConverted(fr, key) ==
    \A v \in BoolTexts :
        LET p == ParseOneFlagToken(fr, key, <<"=">> \o v)
        IN  IF v \in ParseBoolTrue \cup ParseBoolFalse
            THEN /\ p.err = <<>>
                 /\ DOMAIN p.res.flags = {key}
                 /\ p.res.flags[key] = BasicFlagBool(key, v, v \in ParseBoolTrue)
            ELSE /\ p.err = <<NumError("ParseBool", v, "invalid syntax")>>
                 /\ p.res.flags = EmptyMap

\* ["--b=v"] fails with UnexpectedFlagValueError and calls no converter
InlineBoolIsRefused(fr, key) ==
    \A v \in BoolTexts \cup {<<>>} :
        LET p == ParseOneFlagToken(fr, key, <<"=">> \o v)
        IN  /\ p.err = <<UnexpectedFlagValueError(key, v)>>
            /\ p.calls = <<>>
            /\ p.res.flags = EmptyMap

(***************************************************************************)
(* C10 (as stated): a value-less boolean flag b given ["--b"] is bound     *)
(* with a present value (true, raw value empty); given ["--b=true"] or     *)
(* ["--b=false"] it is bound with the supplied boolean; given              *)
(* ["--b=notabool"] the parse fails with the converter's conversion error. *)
(***************************************************************************)
C10_ValuelessBoolFlag_Original ==
    \A fr \in ReturnedFrames :
        \A key \in BoolFlagKeys(fr, FALSE) :
            /\ BareBoolFlagIsTrue(fr, key)
            /\ InlineBoolIsConverted(fr, key)

(***************************************************************************)
(* C10 (amended): a value-less boolean flag b given ["--b"] is bound with  *)
(* a present value (true, raw value empty); given ["--b=true"],            *)
(* ["--b=false"] or ["--b=notabool"] the parse fails with                  *)
(* UnexpectedFlagValueError carrying b and the inline value, and the       *)
(* converter is not invoked.  A boolean flag that accepts a value, given   *)
(* ["--b=true"] or ["--b=false"], is bound with the supplied boolean, and  *)
(* given ["--b=notabool"] the parse fails with the converter's conversion  *)
(* error.                                                                  *)
(***************************************************************************)
C10_ValuelessBoolFlag ==
    \A fr \in ReturnedFrames :
        /\ \A key \in BoolFlagKeys(fr, FALSE) :
               /\ BareBoolFlagIsTrue(fr, key)
               /\ InlineBoolIsRefused(fr, key)
        /\ \A key \in BoolFlagKeys(fr, TRUE) : InlineBoolIsConverted(fr, key)

\* Route was given ["--b"], then a command, and bound the value-less bool
\* flag b to true with an empty raw value, at a level that also has a bool
\* flag that accepts a value
C10_Witness ==
    \E fr \in ReturnedFrames :
        /\ Len(fr.args) >= 1
        /\ HasPrefix(fr.args[1], DashDash)
        /\ FlagNameOf(fr.args[1]) \in BoolFlagKeys(fr, FALSE)
        /\ ~HasInlineValue(fr.args[1])
        /\ BoolFlagKeys(fr, TRUE) # {}
        /\ fr.err = <<>>
        /\ FlagNameOf(fr.args[1]) \in DOMAIN fr.res.flags
        /\ fr.res.flags[FlagNameOf(fr.args[1])] = BasicFlagBool(FlagNameOf(fr.args[1]), <<>>, TRUE)


(***************************************************************************)
(* C11: namespace construction and duplicate keys                          *)
(***************************************************************************)
\* the lower-cased name and aliases of one flag definition, name first
KeysOf(flagDef) ==
    <<ToLower(flagDef.Name)>> \o [i \in 1..Len(flagDef.Aliases) |-> ToLower(flagDef.Aliases[i])]

RECURSIVE KeyListing(_)
\* the keys of the flag definitions of a list, in listing order
KeyListing(flagList) ==
    IF Len(flagList) = 0 THEN <<>>
    ELSE KeysOf(Head(flagList)) \o KeyListing(Tail(flagList))

\* the keys of the flag definitions visible while root is the active level
VisibleKeys(root) == KeyListing(listFlagDefs(root, TRUE))

\* the positions of a listing whose key already occurs before them
Repeats(keys) == {j \in 1..Len(keys) : \E i \in 1..(j - 1) : keys[i] = keys[j]}

\* the keys that two different visible flag definitions both resolve to
SharedKeys(root) ==
    LET visible == listFlagDefs(root, TRUE)
    IN  {k \in Range(VisibleKeys(root)) :
            \E i, j \in 1..Len(visible) :
                i # j /\ k \in Range(KeysOf(visible[i])) /\ k \in Range(KeysOf(visible[j]))}

\* the invocation failed with DuplicateFlagNameError
FailedOnDuplicate(fr) == fr.err # <<>> /\ fr.err[1].Type = "DuplicateFlagNameError"

(***************************************************************************)
(* C11 (as stated): for every tree in which no two simultaneously visible  *)
(* flags share a lower-cased name or alias, namespace construction         *)
(* succeeds at every level; if at some level two visible flag definitions  *)
(* resolve to the same lower-cased key, parsing that level fails with      *)
(* DuplicateFlagNameError carrying that key.                               *)
(***************************************************************************)
C11_DuplicateFlagNames_Original ==
    \A fr \in Frames :
        IF SharedKeys(fr.root) = {}
        THEN ~FailedOnDuplicate(fr)
        ELSE /\ FailedOnDuplicate(fr)
             /\ fr.err[1].Name \in SharedKeys(fr.root)

(***************************************************************************)
(* C11 (amended): at every level whose visible flag definitions list no    *)
(* lower-cased name or alias twice (on two definitions, or twice on one),  *)
(* namespace construction succeeds and the namespace holds exactly those   *)
(* keys; if a key is listed twice, parsing that level with a non-empty     *)
(* token window fails, before any token is read, with                      *)
(* DuplicateFlagNameError carrying the first key that repeats in listing   *)
(* order.  A level parsed with an empty token window builds no namespace   *)
(* and succeeds.                                                           *)
(***************************************************************************)
C11_DuplicateFlagNames ==
    \A fr \in Frames :
        LET keys == VisibleKeys(fr.root)
        IN  IF Len(fr.args) = 0
            THEN fr.returned /\ fr.err = <<>>
            ELSE IF Repeats(keys) = {}
            THEN ~FailedOnDuplicate(fr) /\ DOMAIN fr.allFlags = Range(keys)
            ELSE /\ fr.returned
                 /\ fr.err = <<DuplicateFlagNameError(
                                   keys[CHOOSE j \in Repeats(keys) :
                                            \A i \in Repeats(keys) : j <= i])>>
                 /\ fr.pos = 0
                 /\ fr.calls = <<>>

\* the root level had no repeated key and selected p; the level of p was
\* given tokens and failed on a key shared by two definitions
C11_Witness ==
    /\ Len(levels) = 2
    /\ Repeats(VisibleKeys(levels[1].root)) = {}
    /\ levels[1].res.subcommand # <<>>
    /\ Len(levels[2].args) >= 1
    /\ FailedOnDuplicate(levels[2])
    /\ levels[2].err[1].Name \in SharedKeys(levels[2].root)
    /\ err = levels[2].err


(***************************************************************************)
(* C12: position independence of an unrestricted flag                      *)
(***************************************************************************)
RECURSIVE PathsIn(_, _)
\* the chains of commands that start with prefix and continue into subs
PathsIn(prefix, subs) ==
    IF Len(subs) = 0 THEN {}
    ELSE LET path == Append(prefix, Head(subs))
         IN  {path} \cup PathsIn(path, Head(subs).Subcommands) \cup PathsIn(prefix, Tail(subs))

\* the chains of commands from a child of the application down
CommandPaths == PathsIn(<<>>, app.Commands)

\* a text that is neither empty, nor flag-like, nor the name or alias of a
\* command of the application
IsValueText(v) ==
    /\ v # <<>>
    /\ IsPlain(v)
    /\ \A cmd \in CommandsIn(app.Commands) : ToLower(v) \notin CommandKeys(cmd)

\* the values the input spells, as a token or inline
ValueTexts == {v \in Range(input) \cup {InlineValueOf(t) : t \in Range(input)} : IsValueText(v)}

\* the flag written "--f v" or "--f=v"
FlagTokens(flagDef, v, inline) ==
    IF inline THEN <<DashDash \o flagDef.Name \o <<"=">> \o v>>
    ELSE <<DashDash \o flagDef.Name, v>>

\* the names of the commands of a chain
PathNames(path) == [i \in 1..Len(path) |-> path[i].Name]

\* the input that names the commands of path with the flag placed after the
\* k-th name (before the first name when k = 0)
Placement(path, flagDef, v, k, inline) ==
    SubSeq(PathNames(path), 1, k) \o FlagTokens(flagDef, v, inline)
        \o SubSeq(PathNames(path), k + 1, Len(path))

\* the chains whose last command owns an unrestricted flag that accepts a
\* value, none of whose commands accepts positional arguments
UnrestrictedOwners ==
    {po \in UNION {{[path |-> path, flagDef |-> d] : d \in Range(path[Len(path)].Flags)} :
                      path \in CommandPaths} :
        /\ po.flagDef.ValueAccepted
        /\ ~po.flagDef.OnlyAfterCommandName
        /\ \A j \in 1..Len(po.path) : ~po.path[j].ArgsAccepted}

\* what Route yields for every placement: the owning command and the flag
\* alone in the flag map, as its converter binds the value
PlacedResult(path, flagDef, v) ==
    LET key == ToLower(flagDef.Name)
    IN  /\ err = <<>>
        /\ result.Command = path[Len(path)]
        /\ result.Args = <<>>
        /\ result.Flags = MapPut(EmptyMap, key, Parse(flagDef.Parser, key, v, <<>>).flag[1])

(***************************************************************************)
(* C12: for a value-accepting flag with OnlyAfterCommandName false owned   *)
(* by a descendant command, in a tree whose flag names are unique, where   *)
(* no command on the path accepts positional arguments and the value is    *)
(* neither a command name nor flag-like, Route yields the same command and *)
(* the same flag map whether the flag is placed before the first command   *)
(* name, between two command names or after the owning command's name,     *)
(* and whether it is written "--f v" or "--f=v".                           *)
(***************************************************************************)
C12_PositionIndependence ==
    pc = "done" =>
        \A po \in UnrestrictedOwners :
            \A v \in ValueTexts :
                \A k \in 0..Len(po.path) :
                    \A inline \in BOOLEAN :
                        input = Placement(po.path, po.flagDef, v, k, inline)
                            => PlacedResult(po.path, po.flagDef, v)

\* Route has returned for the flag written as two tokens between the names
\* of two commands, the second of which owns it
C12_Witness ==
    /\ pc = "done"
    /\ \E po \in UnrestrictedOwners :
           \E v \in ValueTexts :
               /\ Len(po.path) = 2
               /\ input = Placement(po.path, po.flagDef, v, 1, FALSE)
               /\ PlacedResult(po.path, po.flagDef, v)


\* the keys of the flag definitions of the whole tree that are not
\* restricted to their command
UnrestrictedKeys ==
    UNION {Range(KeysOf(d)) : d \in {d \in Range(listFlagDefs(app, TRUE)) : ~d.OnlyAfterCommandName}}

(***************************************************************************)
(* C13 (as stated): a flag whose OnlyAfterCommandName is false can appear  *)
(* anywhere in the invocation; in particular a global flag defined on the  *)
(* Application is recognized at every level, also after a subcommand name  *)
(* at any depth, and is bound when its token is read (at once when it      *)
(* takes no value or carries one inline that its converter accepts).       *)
(***************************************************************************)
C13_UnrestrictedFlagAnywhere ==
    [][ ( /\ Scanning
          /\ HasPrefix(Token, DashDash)
          /\ FlagNameOf(Token) \in UnrestrictedKeys )
        => /\ FlagNameOf(Token) \in DOMAIN frame.allFlags
           /\ frame'.err # <<UnknownFlagNameError(FlagNameOf(Token))>>
           /\ ( /\ ~ClosingFails(frame)
                /\ frame.allFlags[FlagNameOf(Token)].ValueAccepted = HasInlineValue(Token)
                /\ Parse(frame.allFlags[FlagNameOf(Token)].Parser, FlagNameOf(Token),
                         InlineValueOf(Token), <<>>).err = <<>> )
              => FlagNameOf(Token) \in DOMAIN frame'.res.flags ]_vars


\* the flag definitions of the whole tree, restricted or not
AllFlagDefs == Range(app.Flags) \cup UNION {Range(cmd.Flags) : cmd \in CommandsIn(app.Commands)}

\* the token names the flag definition and no other flag definition of the tree
NamesOnly(token, flagDef) ==
    /\ NamesFlag(token, flagDef)
    /\ \A other \in AllFlagDefs \ {flagDef} : ~NamesFlag(token, other)

(***************************************************************************)
(* C14 (as stated): if a flag's OnlyAfterCommandName is true, passing that *)
(* flag at any position before the name of the subcommand it belongs to    *)
(* makes Route return an error, for every tree and every setting of        *)
(* AllowNonFlagFlags on the commands in between.                           *)
(***************************************************************************)
C14_RestrictedFlagBeforeCommandName ==
    pc = "done" =>
        \A cmd \in CommandsIn(app.Commands) :
            \A d \in Range(cmd.Flags) :
                \A i, j \in 1..Len(input) :
                    ( /\ d.OnlyAfterCommandName
                      /\ i < j
                      /\ NamesOnly(input[i], d)
                      /\ IsPlain(input[j])
                      /\ ToLower(input[j]) \in CommandKeys(cmd) )
                    => err # <<>>


\* the token the loop is at names a flag of the namespace of the level
KnownFlagToken ==
    /\ Scanning
    /\ HasPrefix(Token, DashDash)
    /\ FlagNameOf(Token) \in DOMAIN frame.allFlags

\* the flag named by the token is bound as the token is read: it accepts no
\* value, or the token carries one
BoundAtOnce ==
    ~frame.allFlags[FlagNameOf(Token)].ValueAccepted \/ HasInlineValue(Token)

(***************************************************************************)
(* C15 (as stated): a bound flag is stored in the flag map under its       *)
(* definition's canonical name: whichever alias or letter case the user    *)
(* used to invoke flag d, the key under which d's runtime value is found   *)
(* is d's name (letter case apart), so occurrences of d through different  *)
(* aliases refer to one entry.                                             *)
(***************************************************************************)
C15_FlagStoredUnderName_Original ==
    \A fr \in Frames :
        \A k \in DOMAIN fr.res.flags : ToLower(k) = ToLower(fr.allFlags[k].Name)

\* every entry of a flag map is a flag whose name is its key
C15_KeyIsFlagName ==
    \A fr \in Frames : \A k \in DOMAIN fr.res.flags : GetName(fr.res.flags[k]) = k

\* a token that names a known flag adds to the keys of the flag map the name
\* it was written with, lower-cased, when the flag is bound at once, and the
\* name the flag awaiting a value was written with, which it closes
C15_BindsInvokedName ==
    (KnownFlagToken /\ frame'.err = <<>>)
        => /\ DOMAIN frame'.res.flags =
                  DOMAIN frame.res.flags
                      \cup (IF frame.openFlagDef # <<>> THEN {frame.openFlagArg} ELSE {})
                      \cup (IF BoundAtOnce THEN {FlagNameOf(Token)} ELSE {})
           /\ frame'.openFlagArg = IF BoundAtOnce THEN <<>> ELSE FlagNameOf(Token)

(***************************************************************************)
(* C15 (amended): a bound flag is stored in the flag map under the name or *)
(* alias the user invoked it with, lower-cased (the text between "--" and  *)
(* the first "="), and the runtime value carries that same name:           *)
(* occurrences of flag d that differ only in letter case refer to one      *)
(* entry, occurrences through different aliases make separate entries.     *)
(***************************************************************************)
C15_FlagStoredUnderName ==
    /\ [](C15_KeyIsFlagName)
    /\ [][C15_BindsInvokedName]_vars

\* one level bound the same flag definition under two keys, one of which is
\* not the name of the definition
C15_Witness ==
    \E fr \in ReturnedFrames :
        \E k1, k2 \in DOMAIN fr.res.flags :
            /\ fr.err = <<>>
            /\ k1 # k2
            /\ fr.allFlags[k1] = fr.allFlags[k2]
            /\ k1 # ToLower(fr.allFlags[k1].Name)


\* the levels of the Route call that bound a flag under key k, by index
LevelsBinding(k) == {i \in 1..Len(levels) : k \in DOMAIN levels[i].res.flags}

C16_LastLevelWins ==
    (pc = "done" /\ err = <<>>)
        => /\ DOMAIN result.Flags = UNION {DOMAIN levels[i].res.flags : i \in 1..Len(levels)}
           /\ \A k \in DOMAIN result.Flags :
                  \E i \in LevelsBinding(k) :
                      /\ \A j \in LevelsBinding(k) : j <= i
                      /\ result.Flags[k] = levels[i].res.flags[k]

\* a flag definition with OnlyAfterCommandName true is given to its
\* converter at the level of a command that owns it and nowhere else
C16_RestrictedBoundByOwner ==
    \A fr \in Frames :
        \A c \in Range(fr.calls) :
            c.def.OnlyAfterCommandName => c.def \in Range(flags(fr.root))

RECURSIVE WindowStart(_)
\* the number of input tokens before the token window of the i-th level
WindowStart(i) ==
    IF i = 1 THEN 0 ELSE WindowStart(i - 1) + levels[i - 1].pos + 1

\* the position in the input of the token at which the i-th level returned
ReturnPos(i) == WindowStart(i) + levels[i].pos + 1

\* the token is the name or an alias of the command, letter case apart, as
\* written or as the name of a flag-like token
Selects(token, cmd) ==
    \/ ToLower(token) \in CommandKeys(cmd)
    \/ HasPrefix(token, DashDash) /\ FlagNameOf(token) \in CommandKeys(cmd)

(***************************************************************************)
(* C17: when Route succeeds after matching at least one command, the       *)
(* returned Command is the deepest match: the matched commands form a      *)
(* chain in which the first is a child of the root and each next one is a  *)
(* child of the previous, each was selected by one input token, and these  *)
(* tokens occur in the input in chain order.                               *)
(***************************************************************************)
C17_DeepestMatch ==
    (pc = "done" /\ err = <<>> /\ cmdPath # <<>>)
        => /\ result.Command = cmdPath[Len(cmdPath)]
           /\ Len(levels) = Len(cmdPath) + 1
           /\ levels[Len(levels)].res.subcommand = <<>>
           /\ \A i \in 1..Len(cmdPath) :
                  /\ cmdPath[i] \in Range(subcommands(IF i = 1 THEN app ELSE cmdPath[i - 1]))
                  /\ levels[i].res.subcommand = <<cmdPath[i]>>
                  /\ levels[i].args = SubSeq(input, WindowStart(i) + 1, Len(input))
                  /\ ReturnPos(i) \in 1..Len(input)
                  /\ Selects(input[ReturnPos(i)], cmdPath[i])
                  /\ i > 1 => ReturnPos(i - 1) < ReturnPos(i)

\* Route returned the second command of a chain, whose name came after a
\* token that is no command name
C17_Witness ==
    /\ pc = "done"
    /\ err = <<>>
    /\ Len(cmdPath) = 2
    /\ result.Command = cmdPath[2]
    /\ result.Command # cmdPath[1]
    /\ ReturnPos(2) > ReturnPos(1) + 1


\* a flag-like token that names no flag of the level and can be used neither
\* as a flag value, nor as a subcommand, nor as a positional argument
UnusableFlagLikeToken ==
    /\ Scanning
    /\ HasPrefix(Token, DashDash)
    /\ FlagNameOf(Token) \notin DOMAIN frame.allFlags
    /\ frame.openFlagDef = <<>>
    /\ MatchingChildren(frame.root, Token) = {}
    /\ MatchingChildren(frame.root, FlagNameOf(Token)) = {}
    /\ ~argsAccepted(frame.root)

(***************************************************************************)
(* C18 (as stated): with AllowNonFlagFlags true, a "--"-prefixed token     *)
(* that matches no flag definition and cannot be used as a flag value, a   *)
(* subcommand or a positional argument (no open flag, no matching child,   *)
(* arguments not accepted) still makes the parse fail with the             *)
(* invalid-flag error, UnknownFlagNameError.                               *)
(***************************************************************************)
C18_UnusableTokenIsUnknownFlag ==
    [][ (UnusableFlagLikeToken /\ frame.allowNonFlagFlags)
        => /\ frame'.returned
           /\ frame'.err = <<UnknownFlagNameError(FlagNameOf(Token))>> ]_vars


\* a flag definition that requires a value: it accepts one and its converter
\* makes no value of the empty text
RequiresValue(flagDef) ==
    /\ flagDef.ValueAccepted
    /\ Parse(flagDef.Parser, ToLower(flagDef.Name), <<>>, <<>>).err # <<>>

\* parse is about to leave the flag awaiting a value without one: the window
\* is at its end, or the token at hand names a known flag or a subcommand
OpenFlagGetsNoValue ==
    /\ pc = "parse"
    /\ ~frame.returned
    /\ frame.openFlagDef # <<>>
    /\ \/ frame.pos >= Len(frame.args)
       \/ KnownFlagToken
       \/ Scanning /\ IsPlain(Token) /\ MatchingChildren(frame.root, Token) # {}

(***************************************************************************)
(* C19 (as stated): when a flag that requires a value is used without a    *)
(* value (it is the last token, or it is followed by another flag or by a  *)
(* subcommand name), Route returns MissingFlagValueError carrying the      *)
(* flag's name.                                                            *)
(***************************************************************************)
C19_MissingFlagValue ==
    [][ (OpenFlagGetsNoValue /\ RequiresValue(frame.openFlagDef[1]))
        => /\ frame'.returned
           /\ frame'.err = <<MissingFlagValueError(frame.openFlagArg)>> ]_vars


\* the keys of the list flags of the namespace of the level of fr
ListFlagKeys(fr) == {k \in DOMAIN fr.allFlags : fr.allFlags[k].Parser = "StringListParser"}

\* the flag written with an inline value
InlineFlagToken(key, v) == DashDash \o key \o <<"=">> \o v

\* at the level of fr, one occurrence of the list flag with the value "a,b"
\* yields the typed list that the occurrences with the values a and b yield
CommaListIsRepeatedUse(fr, key, a, b) ==
    LET once  == parse(fr.root, <<InlineFlagToken(key, a \o <<",">> \o b)>>, fr.allowNonFlagFlags)
        twice == parse(fr.root, <<InlineFlagToken(key, a), InlineFlagToken(key, b)>>,
                       fr.allowNonFlagFlags)
    IN  /\ once.err = <<>>
        /\ twice.err = <<>>
        /\ key \in DOMAIN once.res.flags
        /\ key \in DOMAIN twice.res.flags
        /\ twice.res.flags[key].Value = [strings |-> <<a, b>>]
        /\ once.res.flags[key].Value = twice.res.flags[key].Value

(***************************************************************************)
(* C20 (as stated): a list parser accepts a list either as a               *)
(* comma-separated value or as repeated uses of the flag: a single         *)
(* occurrence whose value is "a,b" yields the same typed list [a, b] as    *)
(* two occurrences with values "a" and "b".                                *)
(***************************************************************************)
C20_CommaSeparatedList ==
    \A fr \in ReturnedFrames :
        \A key \in ListFlagKeys(fr) :
            \A a, b \in ValueTexts : CommaListIsRepeatedUse(fr, key, a, b)


(***************************************************************************)
(* C21: the order of the steps of Application.Run                          *)
(***************************************************************************)
\* Build is called only once Route has returned without error a command
\* that has a Handler, Handle only after Build, and each at most once
C21_CallsInOrder ==
    /\ run.called \in {<<>>, <<"Build">>, <<"Build", "Handle">>}
    /\ run.called # <<>>
           => /\ pc \in {"built", "handled", "returned"}
              /\ err = <<>>
              /\ result.Command.Handler # <<>>

\* what Run returns: 1 with no call made when Route failed or the command
\* has no Handler; otherwise the Code Build left if Handle was not called,
\* which is then greater than 0, and the final Code if it was
C21_ReturnedCode ==
    run.returned # <<>>
        => IF err # <<>> \/ result.Command.Handler = <<>>
           THEN run.returned = <<1>> /\ run.called = <<>>
           ELSE /\ run.returned = <<run.code>>
                /\ run.called = <<"Build">> => run.code > 0
                /\ run.called # <<>>

\* the step Run takes after Build: it returns the Code Build left when that
\* is greater than 0, without calling Handle, and calls Handle otherwise
C21_AfterBuild ==
    pc = "built"
        => IF run.code > 0
           THEN run'.called = run.called /\ run'.returned = <<run.code>>
           ELSE run'.called = Append(run.called, "Handle") /\ run'.returned = <<>>

(***************************************************************************)
(* C21: Application.Run orders its steps Route, then Build, then Handle:   *)
(* when Route returns an error or the resolved command has no Handler, Run *)
(* returns 1 and neither Build nor Handle is called; when Build leaves a   *)
(* Code greater than 0, Handle is not called and Run returns that Code;    *)
(* otherwise Handle is called exactly once after Build and Run returns the *)
(* Response's final Code.                                                  *)
(***************************************************************************)
C21_RunOrder ==
    /\ [](C21_CallsInOrder /\ C21_ReturnedCode)
    /\ [][C21_AfterBuild]_vars

\* Run returned the code the Handler of a nested command left, after Build
\* had left a code that is not greater than 0
C21_Witness ==
    /\ pc = "returned"
    /\ Len(cmdPath) = 2
    /\ run.called = <<"Build", "Handle">>
    /\ run.returned = <<2>>


(***************************************************************************)
(* C22: what SubcommandsHelp lists                                         *)
(***************************************************************************)
\* the lines of a text, each without its line end
RECURSIVE LinesOf(_)
LinesOf(text) ==
    IF Len(text) = 0 THEN <<>>
    ELSE <<Cut(text, "\n")[1]>> \o LinesOf(Cut(text, "\n")[2])

\* the text of each line up to its first tab
FirstCells(lines) == [i \in 1..Len(lines) |-> Cut(lines[i], "\t")[1]]

NotHidden(cmd) == ~cmd.Hidden

\* the names of the commands that are not hidden, in declaration order
ListedNames(cmds) ==
    LET shown == SelectSeq(cmds, NotHidden)
    IN  [i \in 1..Len(shown) |-> shown[i].Name]

(***************************************************************************)
(* C22: SubcommandsHelp omits every command whose Hidden field is true:    *)
(* its output has one line per non-hidden subcommand, in declaration       *)
(* order, and no line for a hidden subcommand.                             *)
(***************************************************************************)
C22_HelpOmitsHidden ==
    pc = "helped" => FirstCells(LinesOf(run.usage)) = ListedNames(subcommands(app))


(***************************************************************************)
(* C23: a token read while a flag awaits its value, where arguments are    *)
(* accepted                                                                *)
(***************************************************************************)
\* a flag that accepts a value is awaiting it, and the token parse is at is
\* no known flag, no child name, and not refused as an unknown flag
OpenFlagMeetsOtherToken ==
    /\ Scanning
    /\ frame.openFlagDef # <<>>
    /\ ~KnownFlagToken
    /\ MatchingChildren(frame.root, Token) = {}
    /\ IsPlain(Token) \/ frame.allowNonFlagFlags

\* what the converter of the awaiting flag makes of the token as its value
TokenAsValue ==
    Parse(frame.openFlagDef[1].Parser, frame.openFlagArg, Token,
          MapGet(frame.res.flags, frame.openFlagArg))

(***************************************************************************)
(* C23: At a level that accepts positional arguments, when a               *)
(* value-accepting flag is awaiting its value and the current token is the *)
(* last token of the level's window (and is neither a known flag nor a     *)
(* child name), the token is appended to the positional arguments and the  *)
(* pending flag is left unbound; when the token is not the last one, it is *)
(* bound as the flag's value through the converter and the state returns   *)
(* to Scanning. (Read with a token that the level does not refuse as an    *)
(* unknown flag and a value that the converter accepts.)                   *)
(***************************************************************************)
C23_LastTokenIsArgument ==
    [][ (OpenFlagMeetsOtherToken /\ argsAccepted(frame.root))
        => IF frame.pos + 1 = Len(frame.args)
           THEN /\ frame'.res.args = Append(frame.res.args, Token)
                /\ frame'.res.flags = frame.res.flags
                /\ frame'.calls = frame.calls
                /\ frame'.openFlagDef = frame.openFlagDef
           ELSE TokenAsValue.err = <<>>
                    => /\ frame'.res.flags =
                              MapPut(frame.res.flags, frame.openFlagArg, TokenAsValue.flag[1])
                       /\ frame'.res.args = frame.res.args
                       /\ frame'.openFlagDef = <<>>
                       /\ ~frame'.returned ]_vars


(***************************************************************************)
(* C24: the window of a level ends while a flag awaits its value           *)
(***************************************************************************)
\* parse is past the last token of the window and a flag awaits its value
WindowEndsOnOpenFlag ==
    /\ pc = "parse"
    /\ ~frame.returned
    /\ frame.pos >= Len(frame.args)
    /\ frame.openFlagDef # <<>>

\* fr returned at the end of its window with a flag awaiting its value
EndedOnOpenFlag(fr) ==
    /\ fr.returned
    /\ fr.pos >= Len(fr.args)
    /\ fr.openFlagDef # <<>>

FlagsOnceClosed(fr) ==
    MapPut(fr.res.flags, GetName(ClosingResult(fr).flag[1]), ClosingResult(fr).flag[1])

\* the converter calls frame makes in the step, in order
NewCalls == SubSeq(frame'.calls, Len(frame.calls) + 1, Len(frame'.calls))

OpenFlagMeetsChildName ==
    /\ Scanning
    /\ frame.openFlagDef # <<>>
    /\ MatchingChildren(frame.root, Token) # {}

\* the first child of the level that the token names
NamedChild == subcommands(frame.root)[FirstOf(MatchingChildren(frame.root, Token))]

OtherTokenWhereNoArgs ==
    /\ Scanning
    /\ ~argsAccepted(frame.root)
    /\ ~KnownFlagToken
    /\ MatchingChildren(frame.root, Token) = {}
    /\ IsPlain(Token) \/ frame.allowNonFlagFlags

(***************************************************************************)
(* C27: At a level that does not accept positional arguments (always the   *)
(* case for the Application root), a token that is not a known flag and    *)
(* matches no child fails the parse with UnexpectedCommandArgError naming  *)
(* the token when no flag is awaiting a value, and is bound as the pending *)
(* flag's value, returning to Scanning, when one is. (Read with a token    *)
(* that the level does not refuse as an unknown flag and a value that the  *)
(* converter accepts.)                                                     *)
(***************************************************************************)
C27_UnexpectedArgOrFlagValue ==
    /\ [](~argsAccepted(app))
    /\ [][ OtherTokenWhereNoArgs
           => IF frame.openFlagDef = <<>>
              THEN /\ frame'.returned
                   /\ frame'.err = <<UnexpectedCommandArgError(Token)>>
              ELSE TokenAsValue.err = <<>>
                       => /\ frame'.res.flags =
                                 MapPut(frame.res.flags, frame.openFlagArg, TokenAsValue.flag[1])
                          /\ frame'.openFlagDef = <<>>
                          /\ ~frame'.returned ]_vars


(***************************************************************************)
(* C28: what the flattened namespace of a level contains                   *)
(***************************************************************************)
\* the flag definitions owned by root, and those owned by a strict
\* descendant of root that are not restricted to their command
OwnAndUnrestrictedBelow(root) ==
    Range(flags(root))
        \cup UNION {{d \in Range(cmd.Flags) : ~d.OnlyAfterCommandName} :
                       cmd \in CommandsIn(subcommands(root))}

\* the flag definitions a namespace holds
DefinitionsIn(allFlags) == {allFlags[k] : k \in DOMAIN allFlags}

\* the invocation built its namespace: its window is not empty and no key
\* was found twice
BuiltNamespace(fr) == Len(fr.args) >= 1 /\ ~FailedOnDuplicate(fr)

DescentEnded == pc = "done" /\ err = <<>> /\ levels # <<>>

(***************************************************************************)
(* C29: Every per-level parse result that has no matched child has an      *)
(* empty unconsumed tail (a non-empty tail exists only together with a     *)
(* matched child), so in every Route call the tail is empty when the       *)
(* descent loop ends.                                                      *)
(***************************************************************************)
C29_TailOnlyWithChild ==
    /\ \A fr \in Frames : fr.res.subcommand = <<>> => fr.res.unparsed = <<>>
    /\ DescentEnded
           => /\ levels[Len(levels)].res.subcommand = <<>>
              /\ levels[Len(levels)].res.unparsed = <<>>

\* the descent ended at a level that read tokens and matched no child,
\* after a level that matched a child and left a tail
C29_Witness ==
    /\ DescentEnded
    /\ Len(levels) >= 2
    /\ levels[1].res.subcommand # <<>>
    /\ levels[1].res.unparsed # <<>>
    /\ Len(levels[Len(levels)].args) >= 2


(***************************************************************************)
(* C30: the positional arguments of the result                             *)
(***************************************************************************)
RECURSIVE ArgsOfLevels(_)
\* the arguments collected by the invocations of a list, first to last
ArgsOfLevels(frames) ==
    IF Len(frames) = 0 THEN <<>>
    ELSE Head(frames).res.args \o ArgsOfLevels(Tail(frames))

(***************************************************************************)
(* C30: The positional arguments of a successful Route result are the      *)
(* concatenation, in level order (root first), of the arguments collected  *)
(* at each visited level, each level's arguments in token order (a level   *)
(* only ever appends to its arguments, at most one per token read);        *)
(* arguments collected at an ancestor level before the child's name are    *)
(* kept in the result handed to the deepest command.                       *)
(***************************************************************************)
C30_ArgsConcatenated ==
    /\ [](err = <<>> => result.Args = ArgsOfLevels(levels))
    /\ [][ Scanning
           => \/ frame'.res.args = frame.res.args
              \/ /\ Len(frame'.res.args) = Len(frame.res.args) + 1
                 /\ SubSeq(frame'.res.args, 1, Len(frame.res.args)) = frame.res.args ]_vars

\* Route succeeded with arguments collected at a level before the name of
\* its child and arguments collected at the child's level
C30_Witness ==
    /\ pc = "done"
    /\ err = <<>>
    /\ \E i \in 1..(Len(levels) - 1) :
           /\ levels[i].res.args # <<>>
           /\ levels[i].res.subcommand # <<>>
           /\ levels[i + 1].res.args # <<>>
           /\ levels[i + 1].res.args # levels[i].res.args
    /\ result.Command = cmdPath[Len(cmdPath)]


(***************************************************************************)
(* C31: the unknown-flag setting a level is parsed with                    *)
(***************************************************************************)
\* the setting of the node itself: an Application has none, which is false
OwnSetting(root) == root.Kind = "Command" /\ root.AllowNonFlagFlags

\* the invocation failed with UnknownFlagNameError
FailedOnUnknownFlag(fr) == fr.err # <<>> /\ fr.err[1].Type = "UnknownFlagNameError"

(***************************************************************************)
(* C31: Each level is parsed with the unknown-flag setting of the command  *)
(* being parsed, not of its parent or ancestors: the root level always     *)
(* disallows unknown "--" tokens, and the token window of a matched child  *)
(* c is parsed with c's own AllowNonFlagFlags, so a parent's setting is    *)
(* not inherited by its children: a "--" token that names no flag of the   *)
(* level's namespace fails with UnknownFlagNameError exactly where the     *)
(* node's own setting is false.                                            *)
(***************************************************************************)
C31_OwnUnknownFlagSetting ==
    /\ [](\A fr \in Frames : fr.allowNonFlagFlags = OwnSetting(fr.root))
    /\ [][ (Scanning /\ HasPrefix(Token, DashDash) /\ ~KnownFlagToken)
           => (FailedOnUnknownFlag(frame') <=> ~OwnSetting(frame.root)) ]_vars

\* a child that does not allow unknown flags, reached through a parent that
\* does, refused a "--" token
C31_Witness ==
    /\ Len(levels) >= 3
    /\ OwnSetting(levels[Len(levels) - 1].root)
    /\ ~OwnSetting(levels[Len(levels)].root)
    /\ FailedOnUnknownFlag(levels[Len(levels)])
    /\ err = levels[Len(levels)].err


(***************************************************************************)
(* C32: an error of a converter                                            *)
(***************************************************************************)
\* what the converter returned for a recorded call
CallResult(call) == Parse(call.def.Parser, call.name, call.value, call.prior)

CallFails(call) == CallResult(call).err # <<>>

\* the last converter call of the invocation failed
LastCallFails(fr) == fr.calls # <<>> /\ CallFails(fr.calls[Len(fr.calls)])

(***************************************************************************)
(* C32: Any error returned by a converter aborts the Route call at once:   *)
(* no token after the failing one is classified, no converter is invoked   *)
(* again, no deeper level is parsed, and the error Route returns is the    *)
(* converter's error unchanged (not wrapped or replaced).                  *)
(***************************************************************************)
C32_ConverterErrorAborts ==
    /\ [](\A fr \in Frames :
              \A i \in 1..Len(fr.calls) :
                  CallFails(fr.calls[i])
                      => /\ i = Len(fr.calls)
                         /\ fr.returned
                         /\ fr.err = CallResult(fr.calls[i]).err
                         /\ fr.pos = fr.calls[i].pos
                         /\ fr.res.subcommand = <<>>)
    /\ [](\A j \in 1..Len(levels) :
              LastCallFails(levels[j])
                  => /\ j = Len(levels)
                     /\ pc = "done"
                     /\ err = CallResult(levels[j].calls[Len(levels[j].calls)]).err)
    /\ [][ (pc = "parse" /\ LastCallFails(frame))
           => /\ pc' = "done"
              /\ err' = CallResult(frame.calls[Len(frame.calls)]).err
              /\ levels' = Append(levels, frame)
              /\ frame' = frame ]_vars

\* Route returned the error of a converter that failed on a token followed
\* by the name of a child of the level, which was not parsed
C32_Witness ==
    /\ pc = "done"
    /\ levels # <<>>
    /\ LastCallFails(levels[Len(levels)])
    /\ err = CallResult(levels[Len(levels)].calls[Len(levels[Len(levels)].calls)]).err
    /\ LET fr == levels[Len(levels)]
       IN  \E i \in (fr.pos + 2)..Len(fr.args) : MatchingChildren(fr.root, fr.args[i]) # {}


(***************************************************************************)
(* C33: termination of Route                                               *)
(***************************************************************************)
RECURSIVE DepthOf(_)
\* the number of commands on the longest chain below the commands of a list
DepthOf(subs) ==
    IF Len(subs) = 0 THEN 0
    ELSE LET below == {1 + DepthOf(subs[i].Subcommands) : i \in 1..Len(subs)}
         IN  CHOOSE d \in below : \A e \in below : e <= d

\* the invocations of parse so far, in order
LevelsParsed == IF pc = "parse" THEN Append(levels, frame) ELSE levels

(***************************************************************************)
(* C33: Route terminates for every finite command tree and finite token    *)
(* list: each descent into a matched child consumes at least one token, so *)
(* the token window strictly shrinks from level to level and the number of *)
(* levels parsed is at most the number of input tokens plus one, and at    *)
(* most the tree depth plus one.                                           *)
(***************************************************************************)
C33_RouteTerminates ==
    /\ <>(pc = "done")
    /\ [](/\ \A i \in 1..(Len(LevelsParsed) - 1) :
                 Len(LevelsParsed[i + 1].args) < Len(LevelsParsed[i].args)
          /\ Len(LevelsParsed) <= Len(input) + 1
          /\ Len(LevelsParsed) <= DepthOf(app.Commands) + 1)

\* Route returned after as many levels as the tree is deep plus one, each
\* but the last having consumed one token and no more
C33_Witness ==
    /\ pc = "done"
    /\ Len(levels) = DepthOf(app.Commands) + 1
    /\ Len(levels) = Len(input) + 1
    /\ Len(levels) >= 3


(***************************************************************************)
(* C34: a level whose window is empty                                      *)
(***************************************************************************)
\* two flag definitions visible at root as the active level share a key
HasDuplicateKeys(root) == Repeats(VisibleKeys(root)) # {}

(***************************************************************************)
(* C34: A level whose token window is empty is not checked at all: parse   *)
(* returns an empty result with no error before building the namespace, so *)
(* a node whose flattened namespace contains duplicate flag names yields   *)
(* DuplicateFlagNameError only when at least one token reaches that level  *)
(* (e.g. the command name followed by nothing succeeds).                   *)
(***************************************************************************)
C34_EmptyWindowUnchecked ==
    \A fr \in Frames :
        /\ Len(fr.args) = 0
               => /\ fr.returned
                  /\ fr.err = <<>>
                  /\ fr.res = emptyParsedCommand
                  /\ fr.allFlags = EmptyMap
                  /\ fr.calls = <<>>
        /\ FailedOnDuplicate(fr) <=> (Len(fr.args) >= 1 /\ HasDuplicateKeys(fr.root))

\* Route succeeded on the name of a command followed by nothing, although
\* two flags visible at the level of that command share a key
C34_Witness ==
    /\ pc = "done"
    /\ err = <<>>
    /\ Len(levels) = 2
    /\ Len(input) = 1
    /\ HasDuplicateKeys(levels[2].root)
    /\ ~HasDuplicateKeys(levels[1].root)
    /\ result.Command = levels[2].root


(***************************************************************************)
(* C35: an input that names no command                                     *)
(***************************************************************************)
\* Route has returned without error and its first call of parse, on the
\* root, matched no command
NoCommandNamed ==
    /\ pc \notin {"route", "parse"}
    /\ err = <<>>
    /\ levels[1].res.subcommand = <<>>

(***************************************************************************)
(* C35: When the input matches no command at the root and causes no error  *)
(* (empty input, or only flags visible at the root with their values),     *)
(* Route returns a nil error together with a zero-valued Command (no name, *)
(* no handler) and the flags bound so far; Application.Run then returns 1  *)
(* without building or running any handler.                                *)
(***************************************************************************)
C35_NoCommandNamed ==
    /\ [](NoCommandNamed
              => /\ Len(levels) = 1
                 /\ result.Command = zeroCommand
                 /\ result.Command.Name = <<>>
                 /\ result.Command.Handler = <<>>
                 /\ result.Flags = levels[1].res.flags
                 /\ run.called = <<>>
                 /\ run.returned \in {<<>>, <<1>>})
    /\ [][ (NoCommandNamed /\ pc = "done")
           => /\ run'.returned = <<1>>
              /\ run'.called = <<>>
              /\ pc' = "returned" ]_vars

\* Run returned 1 without a call of Build or Handle, on an input that bound
\* a flag of the application and named no command
C35_Witness ==
    /\ NoCommandNamed
    /\ pc = "returned"
    /\ input # <<>>
    /\ DOMAIN result.Flags # {}
    /\ run.returned = <<1>>
    /\ run.called = <<>>


(***************************************************************************)
(* C36: restricted flags of the same name on commands that are not on one  *)
(* path                                                                    *)
(***************************************************************************)
\* one command is the other or an ancestor of it
OnOnePath(c1, c2) ==
    \/ c1 = c2
    \/ c1 \in CommandsIn(c2.Subcommands)
    \/ c2 \in CommandsIn(c1.Subcommands)

\* two commands, neither an ancestor of the other, each with a restricted
\* flag, the two flags sharing a key
RestrictedTwins ==
    {p \in [c1 : CommandsIn(app.Commands), d1 : AllFlagDefs,
            c2 : CommandsIn(app.Commands), d2 : AllFlagDefs] :
        /\ ~OnOnePath(p.c1, p.c2)
        /\ p.d1 \in Range(p.c1.Flags) /\ p.d1.OnlyAfterCommandName
        /\ p.d2 \in Range(p.c2.Flags) /\ p.d2.OnlyAfterCommandName
        /\ Range(KeysOf(p.d1)) \cap Range(KeysOf(p.d2)) # {}}

EarlierCalls(fr, i) ==
    {j \in 1..(i - 1) :
        /\ fr.calls[j].def = fr.calls[i].def
        /\ fr.calls[j].name = fr.calls[i].name
        /\ ~CallFails(fr.calls[j])}

\* an error of the type UnexpectedFlagPriorTypeError
IsPriorTypeError(e) == e # <<>> /\ e[1].Type = "UnexpectedFlagPriorTypeError"

(***************************************************************************)
(* C37: With the built-in parsers and a tree without duplicate names, the  *)
(* prior value handed to a converter is always either absent or a value    *)
(* produced earlier at the same level by the same flag definition under    *)
(* the same invoked name (the latest such value); hence every key of a     *)
(* level's flag map equals the GetName() of its value and no Route call    *)
(* returns UnexpectedFlagPriorTypeError.                                   *)
(***************************************************************************)
C37_PriorFromSameFlag ==
    /\ \A fr \in Frames :
           ~HasDuplicateKeys(fr.root)
               => /\ \A i \in 1..Len(fr.calls) :
                         IF EarlierCalls(fr, i) = {}
                         THEN fr.calls[i].prior = <<>>
                         ELSE LET j == CHOOSE n \in EarlierCalls(fr, i) :
                                           \A o \in EarlierCalls(fr, i) : o <= n
                              IN  fr.calls[i].prior = CallResult(fr.calls[j]).flag
                  /\ \A k \in DOMAIN fr.res.flags : GetName(fr.res.flags[k]) = k
                  /\ ~IsPriorTypeError(fr.err)
    /\ ~IsPriorTypeError(err)
    /\ \A k \in DOMAIN result.Flags : GetName(result.Flags[k]) = k

\* the converter of a list flag was handed the list an earlier use of the
\* flag at the level had produced, and added to it
C37_Witness ==
    \E fr \in Frames :
        \E i \in 1..Len(fr.calls) :
            /\ fr.calls[i].def.Parser = "StringListParser"
            /\ fr.calls[i].prior # <<>>
            /\ fr.calls[i].prior[1].Type = "ListFlag[string]"
            /\ fr.calls[i].name \in DOMAIN fr.res.flags
            /\ Len(fr.res.flags[fr.calls[i].name].Value.strings) = 2
            /\ fr.err = <<>>


====
